---- MODULE Spec2Model ----
(***************************************************************************)
(* DALI voice assistant: the orchestrator of src/main.py (construction,    *)
(* the run loop, command dispatch, speech output, cleanup) as a state      *)
(* machine, together with the properties checked on it.                    *)
(***************************************************************************)
EXTENDS Integers, Sequences, FiniteSets, TLC

\* ------------------------------------------------------------------------
\* Bounds of the model
\* ------------------------------------------------------------------------
\* The clock stops advancing at MaxTime.
MaxTime == 3
\* assistant.sleep_timeout (default 300 s), scaled to clock ticks.
SleepTimeout == 2
\* assistant.listen_timeout (default 30 s), scaled to clock ticks.
ListenTimeout == 1

\* ------------------------------------------------------------------------
\* Commands: recognised text is a sequence of characters; keywords are
\* looked up with Python's substring test after lower-casing.
\* ------------------------------------------------------------------------
\* main.py:500
ExitWords ==
    { <<"g","o","o","d","b","y","e">>,
      <<"e","x","i","t">>,
      <<"q","u","i","t">>,
      <<"b","y","e">> }

\* main.py:504
PauseWords ==
    { <<"s","t","o","p">> }

\* main.py:524
TimeWords ==
    { <<"t","i","m","e">>,
      <<"c","u","r","r","e","n","t"," ","t","i","m","e">>,
      <<"w","h","a","t"," ","t","i","m","e">>,
      <<"t","e","l","l"," ","m","e"," ","t","h","e"," ","t","i","m","e">> }

\* main.py:531
DateWords ==
    { <<"d","a","t","e">>,
      <<"t","o","d","a","y">>,
      <<"w","h","a","t"," ","d","a","y">>,
      <<"c","u","r","r","e","n","t"," ","d","a","t","e">>,
      <<"t","o","d","a","y","'","s"," ","d","a","t","e">> }

\* main.py:538
WeatherWords ==
    { <<"t","e","m","p","e","r","a","t","u","r","e">>,
      <<"w","e","a","t","h","e","r">>,
      <<"h","o","w"," ","h","o","t">>,
      <<"h","o","w"," ","c","o","l","d">> }

\* main.py:550
NewsWords ==
    { <<"n","e","w","s">>,
      <<"h","e","a","d","l","i","n","e","s">>,
      <<"u","p","d","a","t","e"," ","m","e">> }

\* main.py:558
AppWords ==
    { <<"o","p","e","n">>,
      <<"l","a","u","n","c","h">>,
      <<"s","t","a","r","t">> }

Utterances ==
    << <<"Q","u","i","t">>,
       <<"s","t","o","p">>,
       <<"b","y","e"," ","s","t","o","p">>,
       <<"w","h","a","t"," ","t","i","m","e">>,
       <<"t","o","d","a","y">>,
       <<"u","p","d","a","t","e"," ","m","e">>,
       <<"w","e","a","t","h","e","r">>,
       <<"n","e","w","s">>,
       <<"o","p","e","n">>,
       <<"s","t","a","r","t"," ","t","i","m","e">>,
       <<"h","e","l","l","o">> >>

NoCommand == 0
Commands == 1..Len(Utterances)

\* str.lower() on the characters that occur in Utterances
LowerChar(ch) ==
    IF ch = "Q" THEN "q" ELSE ch

Lower(s) ==
    [i \in 1..Len(s) |-> LowerChar(s[i])]

\* Python's `kw in s` for strings
IsSubstring(kw, s) ==
    \E i \in 1..(Len(s) - Len(kw) + 1) : SubSeq(s, i, i + Len(kw) - 1) = kw

\* any(kw in command_lower for kw in words)
MatchesAny(words, s) ==
    \E kw \in words : IsSubstring(kw, s)

CommandLower(c) ==
    Lower(Utterances[c])

\* ------------------------------------------------------------------------
\* process_command: which branch of the if/return chain takes the command
\* ------------------------------------------------------------------------
\* A dispatch chain that tests the application-launch keywords first.
HandlerAppFirst(s) ==
    IF MatchesAny(AppWords, s) THEN "app"
    ELSE IF MatchesAny(ExitWords, s) THEN "exit"
    ELSE IF MatchesAny(PauseWords, s) THEN "pause"
    ELSE IF MatchesAny(TimeWords, s) THEN "time"
    ELSE IF MatchesAny(DateWords, s) THEN "date"
    ELSE IF MatchesAny(WeatherWords, s) THEN "weather"
    ELSE IF MatchesAny(NewsWords, s) THEN "news"
    ELSE "fallthrough"

\* A dispatch chain that tests the pause phrase before the exit phrases.
HandlerPauseFirst(s) ==
    IF MatchesAny(PauseWords, s) THEN "pause"
    ELSE IF MatchesAny(ExitWords, s) THEN "exit"
    ELSE IF MatchesAny(TimeWords, s) THEN "time"
    ELSE IF MatchesAny(DateWords, s) THEN "date"
    ELSE IF MatchesAny(WeatherWords, s) THEN "weather"
    ELSE IF MatchesAny(NewsWords, s) THEN "news"
    ELSE IF MatchesAny(AppWords, s) THEN "app"
    ELSE "fallthrough"

\* main.py:499-561, in source order; "fallthrough" reaches line 563
Handler(s) ==
    IF MatchesAny(ExitWords, s) THEN "exit"
    ELSE IF MatchesAny(PauseWords, s) THEN "pause"
    ELSE IF MatchesAny(TimeWords, s) THEN "time"
    ELSE IF MatchesAny(DateWords, s) THEN "date"
    ELSE IF MatchesAny(WeatherWords, s) THEN "weather"
    ELSE IF MatchesAny(NewsWords, s) THEN "news"
    ELSE IF MatchesAny(AppWords, s) THEN "app"
    ELSE "fallthrough"

\* A cloud gate that ignores the configured mode.
CloudPermittedAnyMode(m, ca, latch) ==
    ca /\ ~latch

\* main.py:236 and main.py:564: the condition guarding every use of the
\* cloud language model and of remote synthesis
CloudPermitted(m, ca, latch) ==
    m \in {"online", "auto"} /\ ca /\ ~latch

\* main.py:705: remote transcription is used in mode "online" only
OnlineListen(m, ca, latch) ==
    m = "online" /\ ca /\ ~latch

\* ------------------------------------------------------------------------
\* Events: what one step of the program calls, in call order
\* ------------------------------------------------------------------------
Ev(o, r) ==
    [op |-> o, res |-> r]

Outcome == {"ok", "raise"}

\* the environment of one speak call: remote synthesis, the local engine
\* and the conversation store each succeed or raise
SpeakEnv ==
    [synth : Outcome, tts : Outcome, insert : Outcome]

\* main.py:270-288: local engine, then the best-effort insert
SpeakLocal(dbh, env) ==
    <<Ev("local_tts", env.tts)>> \o
    (IF dbh THEN <<Ev("insert", env.insert)>> ELSE <<>>)

\* A speak that gives up when remote synthesis raises.
SpeakNoFallback(text, m, ca, latch, dbh, env) ==
    IF text = "" THEN <<Ev("speak", "")>>
    ELSE <<Ev("speak", text)>> \o
         (IF CloudPermitted(m, ca, latch)
            THEN <<Ev("synth", env.synth)>>
            ELSE SpeakLocal(dbh, env))

\* main.py:229-288 VoiceAssistant.speak
Speak(text, m, ca, latch, dbh, env) ==
    IF text = "" THEN <<Ev("speak", "")>>
    ELSE <<Ev("speak", text)>> \o
         (IF CloudPermitted(m, ca, latch)
            THEN IF env.synth = "ok"
                   THEN <<Ev("synth", "ok")>>
                   ELSE <<Ev("synth", "raise")>> \o SpeakLocal(dbh, env)
            ELSE SpeakLocal(dbh, env))

\* ------------------------------------------------------------------------
\* State
\* ------------------------------------------------------------------------
VARIABLES
    pc,                      \* position of the main thread
    mode,                    \* self.mode (assistant.mode of the configuration)
    porcupine,               \* self.porcupine is set (wake-word engine created)
    db,                      \* self.db is set (conversation store available)
    running,                 \* self.running
    paused,                  \* self.paused
    cloud_available,         \* self.cloud_available
    offline_fallback_active, \* self.offline_fallback_active
    now,                     \* time.time()
    last_activity,           \* last_activity of run()
    command,                 \* the command returned by the last listen
    events,                  \* the calls made by the last step, in order
    internet,                \* what has_internet() did during construction
    cloudProbe,              \* what is_cloud_available() did during construction
    ttsEngine,               \* what the local engine did with the readiness phrase
    wake,                    \* how the current session was opened
    listened,                \* the current session has listened for a command
    sessionFailed,           \* a cloud call failed in the current session
    exitSeen,                \* an exit phrase has been dispatched
    interrupted,             \* a keyboard interrupt was delivered
    wake_stream_open         \* a wake-word input stream was left open

\* ------------------------------------------------------------------------
\* The realtime agent (agents/realtime.py): cache and clock
\* ------------------------------------------------------------------------
\* The agent's clock stops advancing at MaxClock.
MaxClock == 3
\* TTLCache(ttl_seconds=120) of RealtimeAgent, scaled to clock ticks.
CacheTtl == 2
\* realtime.py:49 and 75: while tries < 2
FetchTries == 2

\* dict.get() of a missing key, and the miss of TTLCache.get
None == <<"<None>">>

\* the location argument of get_weather
Locations == {None, <<"goa">>}

\* the country argument of get_news
Countries == {<<"in">>}

\* realtime.py:39: f"weather:{location or 'default'}"
WeatherKey(location) ==
    <<"weather:">> \o (IF location = None THEN <<"default">> ELSE location)

\* realtime.py:65: f"news:{country}"
NewsKey(country) ==
    <<"news:">> \o country

CacheKeys ==
    {WeatherKey(l) : l \in Locations} \cup {NewsKey(c) : c \in Countries}

\* what the weather endpoint answers with
WeatherBodies == {"sunny"}

\* realtime.py:53
WeatherReply(body) ==
    <<"Current weather: ", body>>

\* realtime.py:38
WeatherNeedsInternet ==
    <<"Internet connection is required for weather information.">>

\* realtime.py:57
WeatherUnable ==
    <<"Unable to fetch weather right now.">>

\* realtime.py:64
NewsNeedsInternet ==
    <<"Internet connection is required for news updates.">>

\* realtime.py:71
NewsNotConfigured ==
    <<"News API key not configured. Set NEWSAPI_KEY to enable headlines.">>

\* realtime.py:81
NewsNone ==
    <<"No headlines available.">>

\* realtime.py:83
NewsReply(titles) ==
    <<"Top headlines: ", titles>>

\* realtime.py:87
NewsUnavailable ==
    <<"News service unavailable.">>

\* what the headlines endpoint answers with
NewsTitles == {"a. b"}

VARIABLES
    cache_store,             \* TTLCache.store, None where the key is absent
    cache_timestamps,        \* TTLCache.timestamps, 0 where the key is absent
    rt_clock,                \* time.time() as the agent sees it
    rt_result,               \* what the last call returned
    rt_events                \* the calls made by the last call, in order

rtVars ==
    <<cache_store, cache_timestamps, rt_clock, rt_result, rt_events>>

\* realtime.py:16-19 and 33-34: an empty cache; the clock is positive
RealtimeAgentInit ==
    /\ cache_store = [k \in CacheKeys |-> None]
    /\ cache_timestamps = [k \in CacheKeys |-> 0]
    /\ rt_clock = 1
    /\ rt_result = None
    /\ rt_events = <<>>

\* ------------------------------------------------------------------------
\* The local speech engine (offline/tts_engine.py): module state
\* ------------------------------------------------------------------------
\* speak calls made in one run
MaxSpeaks == 2
\* worker threads started in one run
MaxWorkers == 3
\* shutdown_tts calls made in one run
MaxShutdowns == 2

\* the threads that call speak and shutdown_tts
Callers == {"main", "other"}

Workers == 1..MaxWorkers

\* tts_engine.py:19: worker_thread = None
NoWorker == 0

\* tts_engine.py:141: the item that tells the worker to stop
Sentinel == 0

\* the texts of the speak calls, numbered in call order
Texts == 1..MaxSpeaks

VARIABLES
    tts_queue,               \* tts_queue: Sentinel or a text, oldest first
    worker_thread,           \* the global worker_thread, NoWorker or a worker
    worker_pc,               \* per worker: unstarted, init, get, say, dead
    worker_item,             \* per worker: the text it is speaking
    speech_complete,         \* the event speech_complete
    tts_engine,              \* the global engine is not None
    caller_pc,               \* per caller: idle, put, wait, join, stop_engine
    caller_item,             \* per caller: the text of its speak call
    caller_wait,             \* per caller: the wait argument of its speak call
    tts_speaks,              \* speak calls made so far
    tts_shutdowns,           \* shutdown_tts calls made so far
    tts_enqueued,            \* the texts put on the queue, in put order
    tts_spoken               \* the texts handed to engine.say, in order

ttsVars ==
    <<tts_queue, worker_thread, worker_pc, worker_item, speech_complete,
      tts_engine, caller_pc, caller_item, caller_wait, tts_speaks,
      tts_shutdowns, tts_enqueued, tts_spoken>>

\* threading.Thread.is_alive: started and not yet returned
Alive(wpc, w) ==
    wpc[w] \in {"init", "get", "say"}

\* tts_engine.py:16-23 and 159: the module as imported, its first worker
\* started
TtsInit ==
    /\ tts_queue = <<>>
    /\ worker_thread = 1
    /\ worker_pc = [w \in Workers |-> IF w = 1 THEN "init" ELSE "unstarted"]
    /\ worker_item = [w \in Workers |-> Sentinel]
    /\ speech_complete = FALSE
    /\ tts_engine = FALSE
    /\ caller_pc = [c \in Callers |-> "idle"]
    /\ caller_item = [c \in Callers |-> Sentinel]
    /\ caller_wait = [c \in Callers |-> FALSE]
    /\ tts_speaks = 0
    /\ tts_shutdowns = 0
    /\ tts_enqueued = <<>>
    /\ tts_spoken = <<>>

\* ------------------------------------------------------------------------
\* The wake-word detector (offline/wake_word.py): state
\* ------------------------------------------------------------------------
\* listener threads started in one run
MaxListeners == 3
\* positive detections in one run
MaxDetections == 2

Listeners == 1..MaxListeners

\* wake_word.py:32: self.thread = None
NoThread == 0

VARIABLES
    ww_running,              \* self.running
    ww_thread,               \* self.thread, NoThread or a listener
    ww_pc,                   \* per listener: unstarted, setup, loop,
                             \* callback, dead
    ww_porcupine,            \* self.porcupine: none, live, released
    ww_pa,                   \* self.pa: none, live, released
    ww_audio_stream,         \* self.audio_stream: none, live, released
    ww_caller,               \* the calling thread: idle, or join inside stop
    ww_detections,           \* frames in which the keyword was spotted
    ww_callbacks,            \* calls of self.callback
    ww_events                \* the calls made by the last step, in order

wwVars ==
    <<ww_running, ww_thread, ww_pc, ww_porcupine, ww_pa, ww_audio_stream,
      ww_caller, ww_detections, ww_callbacks, ww_events>>

\* wake_word.py:18-32 WakeWordDetector.__init__
WakeInit ==
    /\ ww_running = FALSE
    /\ ww_thread = NoThread
    /\ ww_pc = [t \in Listeners |-> "unstarted"]
    /\ ww_porcupine = "none"
    /\ ww_pa = "none"
    /\ ww_audio_stream = "none"
    /\ ww_caller = "idle"
    /\ ww_detections = 0
    /\ ww_callbacks = 0
    /\ ww_events = <<>>

\* ------------------------------------------------------------------------
\* The speech recogniser (offline/recognizer.py): state
\* ------------------------------------------------------------------------
\* config["assistant"]["listen_timeout"], in poll intervals of 0.5 s
ListenCap == 2

\* a key the configuration does not have, an argument left out
NoValue == 0

\* recognizer.py:14 MODELS = config["offline"]["vosk_models"]
ModelLanguages == {"en-in", "hi-in"}

MODELS ==
    [l \in ModelLanguages |-> IF l = "en-in" THEN "models/en" ELSE "models/hi"]

\* what the recogniser can finalise: nothing, or a text
Transcripts == {<<>>, <<"Q", "a">>}

VARIABLES
    rec_listen_timeout,      \* the configured listen_timeout, or NoValue
    rec_language,            \* self.language
    rec_model_path,          \* self.model_path
    rec_model,               \* self.model, as the path it was loaded from
    rec_rec,                 \* self.rec, as the path of the model it uses
    rec_stream,              \* self.stream is not None
    rec_pc,                  \* idle, or poll inside listen_once
    rec_timeout,             \* timeout_seconds of the call in progress
    rec_elapsed,             \* time.time() - start of the call in progress
    rec_result,              \* how the last call ended and what it returned
    rec_events               \* the calls made by the last step, in order

recVars ==
    <<rec_listen_timeout, rec_language, rec_model_path, rec_model, rec_rec,
      rec_stream, rec_pc, rec_timeout, rec_elapsed, rec_result, rec_events>>

\* how a call ends
Returned(value) ==
    [kind |-> "return", value |-> value]

Raised(error) ==
    [kind |-> "raise", value |-> <<error>>]

\* recognizer.py:13 and 19-48 Recognizer.__init__ with the configured
\* language, whatever the configuration says about listen_timeout
RecognizerInit ==
    /\ rec_listen_timeout \in {NoValue, ListenCap}
    /\ rec_language = "en-in"
    /\ rec_model_path = MODELS["en-in"]
    /\ rec_model = MODELS["en-in"]
    /\ rec_rec = MODELS["en-in"]
    /\ rec_stream = FALSE
    /\ rec_pc = "idle"
    /\ rec_timeout = NoValue
    /\ rec_elapsed = 0
    /\ rec_result = Returned(<<>>)
    /\ rec_events = <<>>

\* the configuration has a listen_timeout
RecognizerConfigured ==
    rec_listen_timeout = ListenCap

\* ------------------------------------------------------------------------
\* The dialogue handler (offline/rasa_handler.py): inputs and result
\* ------------------------------------------------------------------------
\* items in the list the dialogue model answers with
MaxResponses == 2

\* a key a response item does not have
Absent == None

\* the custom payloads of a response item: none, empty, with a text, with
\* the joke action, with an action the handler has no method for
NoCustom ==
    [present |-> FALSE, text |-> Absent, action |-> Absent]

Customs ==
    {NoCustom,
     [present |-> TRUE, text |-> Absent, action |-> Absent],
     [present |-> TRUE, text |-> <<"b">>, action |-> Absent],
     [present |-> TRUE, text |-> Absent, action |-> <<"action_tell_joke">>],
     [present |-> TRUE, text |-> Absent, action |-> <<"action_fly">>]}

\* the items of a response list: dicts with or without a text and a custom
\* payload, plain strings, and values that are neither
ResponseItems ==
    {[kind |-> "dict", text |-> t, custom |-> c] :
        t \in {Absent, <<"a">>}, c \in Customs}
    \cup {[kind |-> "str", text |-> <<"c">>, custom |-> NoCustom],
          [kind |-> "other", text |-> Absent, custom |-> NoCustom]}

ResponseLists ==
    UNION {[1..n -> ResponseItems] : n \in 0..MaxResponses}

\* rasa_handler.py:165-171 the jokes of _action_tell_joke
Jokes ==
    <<"Why don't scientists trust atoms? Because they make up everything!",
      "Why did the scarecrow win an award? He was outstanding in his field!",
      "What do you call a fake noodle? An impasta!",
      "Why don't eggs tell jokes? They'd crack each other up!",
      "What did the ocean say to the beach? Nothing, it just waved!">>

\* the intent of the last parsed message: none, one with a mapped action,
\* one without
Intents == {None, <<"tell_joke">>, <<"greet">>}

\* the user texts: empty, or a request
UserTexts == {<<>>, <<"j", "o", "k", "e">>}

VARIABLES
    rasa_text,               \* the text argument of get_response
    rasa_responses,          \* what agent.handle_text answers
    rasa_intent,             \* tracker.latest_message.intent name
    rasa_choice,             \* the index random.choice picks
    rasa_pc,                 \* ready, done
    rasa_result              \* what get_response returned

rasaVars ==
    <<rasa_text, rasa_responses, rasa_intent, rasa_choice, rasa_pc,
      rasa_result>>

\* a handler about to be asked, whatever the text and the model's answer
RasaInit ==
    /\ rasa_text \in UserTexts
    /\ rasa_responses \in ResponseLists
    /\ rasa_intent \in Intents
    /\ rasa_choice \in 1..Len(Jokes)
    /\ rasa_pc = "ready"
    /\ rasa_result = None

\* the handler has not been given anything to answer
RasaUnused ==
    /\ rasa_text = <<>>
    /\ rasa_responses = <<>>
    /\ rasa_intent = None
    /\ rasa_choice = 1

\* ------------------------------------------------------------------------
\* The conversation store (database/db_manager.py): state
\* ------------------------------------------------------------------------
\* inserts over the life of the database file
MaxInserts == 3

\* a column holding NULL
Null == "<NULL>"

\* the metadata arguments of insert_conversation: None, a mapping
NoMeta == "None"
TestMeta == "{'test': True}"

\* the arguments of insert_conversation
Conversations ==
    {[user_text |-> "hello", response_text |-> "hi", mode |-> "offline",
      language |-> "en-IN", metadata |-> TestMeta],
     [user_text |-> "hello", response_text |-> "namaste", mode |-> "online",
      language |-> Null, metadata |-> NoMeta],
     [user_text |-> "bye", response_text |-> "hi", mode |-> "offline",
      language |-> "hi-IN", metadata |-> NoMeta]}

\* the ids asked for, issued or not
ConvIds == 0..(MaxInserts + 1)

\* the limits asked for; a negative LIMIT is no limit to SQLite
Limits == (0 - 1)..MaxInserts

VARIABLES
    db_pc,                   \* new, open, closed, failed: the DBManager
    db_rows,                 \* the rows of table conversations
    db_seq,                  \* sqlite_sequence: the largest id ever issued
    db_result,               \* the last operation and what it returned
    db_inserted,             \* history: the inserts, in order, with their ids
    db_deleted               \* history: the ids of the records deleted

dbVars ==
    <<db_pc, db_rows, db_seq, db_result, db_inserted, db_deleted>>

\* nothing returned yet
NoResult ==
    [op |-> "none", arg |-> 0, id |-> 0, rows |-> <<>>]

\* no DBManager yet, and a database file without the table
DbInit ==
    /\ db_pc = "new"
    /\ db_rows = {}
    /\ db_seq = 0
    /\ db_result = NoResult
    /\ db_inserted = <<>>
    /\ db_deleted = {}

\* ------------------------------------------------------------------------
\* The configuration loader (utils/config.py): inputs and result
\* ------------------------------------------------------------------------
\* nesting of mappings and sequences around a leaf of config.json
MaxDepth == 2

\* the values of config.json: string, integer and null leaves, sequences,
\* mappings (keys and items in file order)
Str(s) ==
    [type |-> "str", s |-> s, items |-> <<>>, keys |-> <<>>]

IntLeaf ==
    [type |-> "int", s |-> <<"8">>, items |-> <<>>, keys |-> <<>>]

NullLeaf ==
    [type |-> "null", s |-> <<>>, items |-> <<>>, keys |-> <<>>]

List(items) ==
    [type |-> "list", s |-> <<>>, items |-> items, keys |-> <<>>]

Dict(keys, items) ==
    [type |-> "dict", s |-> <<>>, items |-> items, keys |-> keys]

\* config.json is not there
NoFile ==
    [type |-> "missing", s |-> <<>>, items |-> <<>>, keys |-> <<>>]

\* what load_config raises then
FileNotFoundError ==
    [type |-> "FileNotFoundError", s |-> <<>>, items |-> <<>>, keys |-> <<>>]

\* the strings of config.json, character by character: without a
\* placeholder, one placeholder, placeholders among text, an empty name, an
\* unclosed one, one opened inside another
ConfigStrings ==
    {<<>>,
     <<"x">>,
     <<"$", "{", "A", "}">>,
     <<"x", "$", "{", "A", "}", "x", "$", "{", "B", "}">>,
     <<"$", "{", "}">>,
     <<"$", "{", "A">>,
     <<"$", "A", "}">>,
     <<"$", "{", "$", "{", "A", "}">>,
     <<"$", "{", "x", "}", "$", "{", "A", "}", "}">>}

ConfigLeaves ==
    {Str(s) : s \in ConfigStrings} \cup {IntLeaf, NullLeaf}

\* a value inside a sequence and inside a mapping, beside a placeholder or
\* under a key that reads like one
ConfigWraps(v) ==
    {List(<<v>>),
     List(<<Str(<<"$", "{", "A", "}">>), v>>),
     Dict(<<<<"$", "{", "A", "}">>>>, <<v>>),
     Dict(<<<<"k">>, <<"l">>>>, <<IntLeaf, v>>)}

\* the values nested at most depth deep
RECURSIVE ConfigValues(_)
ConfigValues(depth) ==
    IF depth = 0 THEN ConfigLeaves
    ELSE ConfigLeaves
            \cup UNION {ConfigWraps(v) : v \in ConfigValues(depth - 1)}

\* the environments, .env loaded: A unset, empty, a value, text that reads
\* like a placeholder; B unset or a value
NoEnv == <<>>

Environments ==
    {e \in UNION {[names -> {<<>>, <<"v">>, <<"$", "{", "B", "}">>}] :
                     names \in SUBSET {<<"A">>, <<"B">>}} :
        <<"B">> \in DOMAIN e => e[<<"B">>] = <<"v">>}

VARIABLES
    cfg_file,                \* the content of config.json, or NoFile
    cfg_env,                 \* os.environ after load_dotenv
    cfg_pc,                  \* ready, done
    cfg_result               \* what load_config returned or raised

cfgVars ==
    <<cfg_file, cfg_env, cfg_pc, cfg_result>>

\* a loader about to be called, whatever the file and the environment
ConfigInit ==
    /\ cfg_file \in ConfigValues(MaxDepth) \cup {NoFile}
    /\ cfg_env \in Environments
    /\ cfg_pc = "ready"
    /\ cfg_result = NullLeaf

\* the loader is not looked at
ConfigUnused ==
    /\ cfg_file = NoFile
    /\ cfg_env = NoEnv


\* ------------------------------------------------------------------------
\* Credentials and the cloud (utils/config.py validate_env,
\* online/network_utils.py, online/cloud_connector.py): state
\* ------------------------------------------------------------------------
\* what an environment variable or a key of config.json holds: nothing
\* (None), the empty string, an unresolved placeholder, a value
Credentials ==
    {None, <<>>, <<"$", "{", "K", "}">>, <<"s", "k">>}

\* the MYSQL_* and the weather variables that are set, non-empty
OtherNames ==
    {"MYSQL_HOST", "MYSQL_USER", "MYSQL_PASSWORD", "MYSQL_DB",
     "OPENWEATHER_API_KEY", "WEATHER_API_KEY"}

OtherEnvs ==
    {{}, OtherNames, OtherNames \ {"MYSQL_DB", "OPENWEATHER_API_KEY"},
     {"WEATHER_API_KEY"}}

\* the bodies of an answer: not JSON, JSON but no mapping, a mapping
\* without choices, with an empty choice list, with a first choice that is
\* no mapping, that has no message, whose message has no content or one that
\* is no string, and one with a text content
Bodies ==
    {"not_json", "not_mapping", "no_choices", "empty_choices",
     "choice_not_mapping", "no_message", "no_content", "content_not_str",
     "content"}

\* the text contents
Contents ==
    {<<" ", "H", "i", " ">>, <<"H", " ", "i">>}

\* what requests.post does: an answer with a status and a body, a timeout,
\* a connection error, another exception
NoContent == <<>>

Responses ==
    {[kind |-> "http", status |-> st, body |-> b, content |-> NoContent] :
        st \in {200, 401, 429, 500}, b \in Bodies \ {"content"}}
    \cup {[kind |-> "http", status |-> 200, body |-> "content", content |-> c] :
            c \in Contents}
    \cup {[kind |-> k, status |-> 0, body |-> "not_json", content |-> NoContent] :
            k \in {"timeout", "connection", "error"}}

\* no request made
NoResponse ==
    [kind |-> "none", status |-> 0, body |-> "not_json", content |-> NoContent]

VARIABLES
    cl_call,                 \* the call: its name, the credentials, the answer
    cl_requests,             \* the requests the call sent
    cl_result                \* what the call returned or raised

clVars ==
    <<cl_call, cl_requests, cl_result>>

NoCall ==
    [op |-> "none", env_sarvam |-> None, cfg_sarvam |-> None,
     env_picovoice |-> None, cfg_picovoice |-> None, others |-> {},
     response |-> NoResponse]

\* the flags of validate_env, the value of the other calls
NoFlags ==
    [sarvam_configured |-> FALSE, picovoice_configured |-> FALSE,
     mysql_configured |-> FALSE, weather_api_configured |-> FALSE]

CallResult(kind, value, flags) ==
    [kind |-> kind, value |-> value, flags |-> flags]

\* nothing called yet; each run looks at one call
CloudInit ==
    /\ cl_call = NoCall
    /\ cl_requests = 0
    /\ cl_result = CallResult("none", None, NoFlags)


\* ------------------------------------------------------------------------
\* Playback of remote speech (main.py speak, the branch for platforms other
\* than Windows): state
\* ------------------------------------------------------------------------
\* playback threads started over the run
MaxPlaybacks == 3

Playbacks == 1..MaxPlaybacks

\* no playback thread
NoPlayback == 0

VARIABLES
    pb_stop,                 \* the stop_playback event is set
    pb_thread,               \* each _play thread: none, check, write, done
    pb_main,                 \* the main thread: idle, or in the pause branch
    pb_prompt                \* the thread that plays the pause prompt

pbVars ==
    <<pb_stop, pb_thread, pb_main, pb_prompt>>

\* main.py:109-111: the event clear, no playback thread
PlaybackInit ==
    /\ pb_stop = FALSE
    /\ pb_thread = [t \in Playbacks |-> "none"]
    /\ pb_main = "idle"
    /\ pb_prompt = NoPlayback

\* ------------------------------------------------------------------------
\* The intent-to-action mapping (offline/rasa_handler.py): state
\* ------------------------------------------------------------------------
\* the intent names of the bundles loaded
IntentNames == {"tell_time", "greet"}

\* rasa_handler.py:91 f"action_{intent}"
ActionName(intent) ==
    "action_" \o intent

\* the action names a bundle may declare
DeclaredNames ==
    {ActionName(n) : n \in IntentNames} \cup {"action_custom"}

\* an intent that has no entry in domain.intent_properties, and one whose
\* properties hold no 'triggers' key
NoEntry == "<no entry>"
NoTriggers == "<no triggers>"

\* the intent lists of a bundle: each name at most once
IntentLists ==
    {<<>>} \cup {<<n>> : n \in IntentNames}
           \cup {<<n, m>> : <<n, m>> \in {p \in IntentNames \X IntentNames :
                                                p[1] # p[2]}}

\* agent.domain: without an attribute, reading it raises AttributeError
Domains ==
    [has_properties : BOOLEAN,
     intent_properties :
        [IntentNames -> {NoEntry, NoTriggers, "action_custom"}],
     has_intents : BOOLEAN,
     intents : IntentLists,
     has_actions : BOOLEAN,
     action_names_or_texts : SUBSET DeclaredNames]

\* rasa_handler.py:75 mapping = {}
EmptyMapping == <<>>

VARIABLES
    map_pc,                  \* "unloaded" or "loaded"
    map_domain,              \* the domain of the bundle that was loaded
    map_result               \* what load_intent_action_mapping returned

mapVars == <<map_pc, map_domain, map_result>>

\* rasa_handler.py:33 self.intent_to_action = {}
MappingInit ==
    /\ map_pc = "unloaded"
    /\ map_domain = [has_properties |-> FALSE,
                     intent_properties |-> [n \in IntentNames |-> NoEntry],
                     has_intents |-> FALSE,
                     intents |-> <<>>,
                     has_actions |-> FALSE,
                     action_names_or_texts |-> {}]
    /\ map_result = EmptyMapping

\* the state of the assistant's components
componentVars ==
    <<rtVars, ttsVars, wwVars, recVars, rasaVars, dbVars, cfgVars, clVars,
      pbVars,
      mapVars>>

\* the orchestrator's own state
orchestratorVars ==
    <<pc, mode, porcupine, db, running, paused, cloud_available,
      offline_fallback_active, now, last_activity, command, events,
      internet, cloudProbe, ttsEngine, wake, listened, sessionFailed,
      exitSeen, interrupted, wake_stream_open>>

vars ==
    <<orchestratorVars, componentVars>>

\* what the operations of one component leave alone
rtFrame ==
    <<orchestratorVars, ttsVars, wwVars, recVars, rasaVars, dbVars,
      cfgVars, clVars,
      pbVars,
      mapVars>>

ttsFrame ==
    <<orchestratorVars, rtVars, wwVars, recVars, rasaVars, dbVars,
      cfgVars, clVars,
      pbVars,
      mapVars>>

wakeFrame ==
    <<orchestratorVars, rtVars, ttsVars, recVars, rasaVars, dbVars,
      cfgVars, clVars,
      pbVars,
      mapVars>>

recFrame ==
    <<orchestratorVars, rtVars, ttsVars, wwVars, rasaVars, dbVars,
      cfgVars, clVars,
      pbVars,
      mapVars>>

rasaFrame ==
    <<orchestratorVars, rtVars, ttsVars, wwVars, recVars, dbVars,
      cfgVars, clVars,
      pbVars,
      mapVars>>

dbFrame ==
    <<orchestratorVars, rtVars, ttsVars, wwVars, recVars, rasaVars,
      cfgVars, clVars,
      pbVars,
      mapVars>>

cfgFrame ==
    <<orchestratorVars, rtVars, ttsVars, wwVars, recVars, rasaVars, dbVars,
      clVars,
      pbVars,
      mapVars>>

clFrame ==
    <<orchestratorVars, rtVars, ttsVars, wwVars, recVars, rasaVars, dbVars,
      cfgVars,
      pbVars,
      mapVars>>

pbFrame ==
    <<orchestratorVars, rtVars, ttsVars, wwVars, recVars, rasaVars, dbVars,
      cfgVars, clVars,
      mapVars>>

mapFrame ==
    <<orchestratorVars, rtVars, ttsVars, wwVars, recVars, rasaVars, dbVars,
      cfgVars, clVars, pbVars>>

Modes == {"online", "offline", "auto"}

ProbeResult == {"true", "false", "raise"}

\* main.py:89-112 VoiceAssistant.__init__, the fields before the subsystems
\* (self.realtime = RealtimeAgent() among them), after the imports of
\* main.py:40 and 65
InitBase ==
    /\ pc = "requirements"
    /\ mode \in Modes
    /\ porcupine = FALSE
    /\ db = FALSE
    /\ running = FALSE
    /\ paused = FALSE
    /\ cloud_available = FALSE
    /\ offline_fallback_active = FALSE
    /\ now = 0
    /\ last_activity = 0
    /\ command = NoCommand
    /\ events = <<>>
    /\ internet = "unprobed"
    /\ cloudProbe = "unprobed"
    /\ ttsEngine = "untested"
    /\ wake = "none"
    /\ listened = FALSE
    /\ sessionFailed = FALSE
    /\ exitSeen = FALSE
    /\ interrupted = FALSE
    /\ wake_stream_open = FALSE
    /\ RealtimeAgentInit
    /\ TtsInit
    /\ WakeInit
    /\ RecognizerInit
    /\ RasaInit
    /\ DbInit
    /\ ConfigInit
    /\ CloudInit
    /\ PlaybackInit
    /\ MappingInit

\* the assistant as started with a complete configuration
Init ==
    /\ RasaUnused
    /\ ConfigUnused
    /\ RecognizerConfigured
    /\ InitBase

\* ------------------------------------------------------------------------
\* Construction
\* ------------------------------------------------------------------------
flagVars == <<running, paused, cloud_available, offline_fallback_active>>
clockVars == <<now, last_activity>>
probeVars == <<internet, cloudProbe>>
ghostVars == <<wake, listened, sessionFailed, exitSeen, interrupted>>

\* main.py:115-116: sys.exit(1) unless pyaudio, tts_engine and vosk imported
Requirements ==
    /\ pc = "requirements"
    /\ \E ok \in BOOLEAN :
          /\ pc' = IF ok THEN "init_tts" ELSE "exited"
          /\ events' = <<Ev("requirements", IF ok THEN "ok" ELSE "missing")>>
    /\ UNCHANGED <<componentVars, wake_stream_open, mode, porcupine, db, flagVars, clockVars, command,
                   probeVars, ttsEngine, ghostVars>>

\* tts_engine.py:121-134 speak(text, wait=True): the worker is started, the
\* item is queued and the caller waits on speech_complete with a timeout.
\* tts_engine.py:68-103: whatever the engine raises is caught in the worker,
\* so the only error the caller can see is a worker thread that fails to start.
TtsSpeakRaises(spawn, engine) ==
    spawn = "raise"

\* main.py:134-144 _init_tts
InitTts ==
    /\ pc = "init_tts"
    /\ \E spawn \in Outcome, engine \in Outcome :
          IF TtsSpeakRaises(spawn, engine)
            THEN /\ pc' = "exited"
                 /\ events' = <<Ev("tts_speak", "raise")>>
                 /\ UNCHANGED ttsEngine
            ELSE /\ pc' = "init_audio"
                 /\ ttsEngine' = engine
                 /\ events' = <<Ev("tts_speak", "returned"), Ev("engine_say", engine)>>
    /\ UNCHANGED <<componentVars, wake_stream_open, mode, porcupine, db, flagVars, clockVars, command,
                   probeVars, ghostVars>>

\* main.py:146-153 _init_audio
InitAudio ==
    /\ pc = "init_audio"
    /\ \E res \in Outcome :
          /\ pc' = IF res = "ok" THEN "init_speech" ELSE "exited"
          /\ events' = <<Ev("pyaudio", res)>>
    /\ UNCHANGED <<componentVars, wake_stream_open, mode, porcupine, db, flagVars, clockVars, command,
                   probeVars, ttsEngine, ghostVars>>

\* main.py:155-173 _init_speech_recognition
InitSpeechRecognition ==
    /\ pc = "init_speech"
    /\ \E res \in {"ok", "missing", "raise"} :
          /\ pc' = IF res = "ok" THEN "init_wake_word" ELSE "exited"
          /\ events' = <<Ev("vosk_model", res)>>
    /\ UNCHANGED <<componentVars, wake_stream_open, mode, porcupine, db, flagVars, clockVars, command,
                   probeVars, ttsEngine, ghostVars>>

\* main.py:175-201 _init_wake_word: every failure leaves self.porcupine unset
InitWakeWord ==
    /\ pc = "init_wake_word"
    /\ \E res \in {"created", "no_module", "no_key", "no_file", "raise"} :
          /\ porcupine' = (res = "created")
          /\ events' = <<Ev("porcupine_create", res)>>
    /\ pc' = "check_cloud"
    /\ UNCHANGED <<componentVars, wake_stream_open, mode, db, flagVars, clockVars, command,
                   probeVars, ttsEngine, ghostVars>>

\* A probe result that accepts either probe alone.
CloudAvailableEitherProbe(hi, ci) ==
    hi = "true" \/ ci = "true"

\* main.py:206-216: the flag is set only when neither probe raised and both
\* returned true
CloudAvailableAfterProbe(hi, ci) ==
    hi = "true" /\ ci = "true"

\* main.py:203-218 _check_cloud_availability
CheckCloudAvailability ==
    /\ pc = "check_cloud"
    /\ \E hi \in ProbeResult :
          /\ internet' = hi
          /\ \E ci \in (IF hi = "true" THEN ProbeResult ELSE {"unprobed"}) :
                /\ cloudProbe' = ci
                /\ cloud_available' = CloudAvailableAfterProbe(hi, ci)
                /\ events' = <<Ev("has_internet", hi)>> \o
                             (IF ci = "unprobed" THEN <<>>
                              ELSE <<Ev("is_cloud_available", ci)>>)
    /\ pc' = "init_db"
    /\ UNCHANGED <<componentVars, wake_stream_open, mode, porcupine, db, running, paused,
                   offline_fallback_active, clockVars, command,
                   ttsEngine, ghostVars>>

\* A store initialisation whose error is not caught.
PcAfterInitDbFatal(res) ==
    IF res = "raise" THEN "exited" ELSE "run"

\* main.py:222-227: the try/except around DBManager() logs and goes on
PcAfterInitDb(res) ==
    "run"

\* main.py:220-227 _init_db
InitDb ==
    /\ pc = "init_db"
    /\ \E res \in {"ok", "no_module", "raise"} :
          /\ db' = (res = "ok")
          /\ events' = <<Ev("DBManager", res)>>
          /\ pc' = PcAfterInitDb(res)
    /\ UNCHANGED <<componentVars, wake_stream_open, mode, porcupine, flagVars, clockVars, command,
                   probeVars, ttsEngine, ghostVars>>

\* ------------------------------------------------------------------------
\* The run loop
\* ------------------------------------------------------------------------
\* main.py:660-683: the greeting is spoken, then self.running = True
RunStart ==
    /\ pc = "run"
    /\ \E env \in SpeakEnv :
          events' = Speak("hello", mode, cloud_available,
                          offline_fallback_active, db, env)
    /\ running' = TRUE
    /\ pc' = "sleeping"
    /\ UNCHANGED <<componentVars, wake_stream_open, mode, porcupine, db, paused, cloud_available,
                   offline_fallback_active, clockVars, command,
                   probeVars, ttsEngine, ghostVars>>

\* main.py:300-325 and 691-698: the wake word is detected; the latch is
\* cleared, the stream closed, "Yes?" spoken and the session window opened
WakeWordDetected ==
    /\ pc = "sleeping"
    /\ porcupine
    /\ running
    /\ offline_fallback_active' = FALSE
    /\ \E env \in SpeakEnv :
          events' = <<Ev("wake_stream", "open"), Ev("wake_word", "detected"),
                      Ev("wake_stream", "close")>> \o
                    Speak("yes", mode, cloud_available, FALSE, db, env)
    /\ last_activity' = now
    /\ pc' = "session"
    /\ wake' = "wake_word"
    /\ listened' = FALSE
    /\ sessionFailed' = FALSE
    /\ UNCHANGED <<componentVars, wake_stream_open, mode, porcupine, db, running, paused, cloud_available,
                   now, command, probeVars, ttsEngine, exitSeen, interrupted>>

\* main.py:331-333 and 691-698: opening or reading the wake-word stream
\* raised; listen_for_wake_word returns True and the session opens anyway
WakeWordError ==
    /\ pc = "sleeping"
    /\ porcupine
    /\ \E at \in {"open", "read"}, env \in SpeakEnv :
          /\ wake_stream_open' = (wake_stream_open \/ at = "read")
          /\ events' = (IF at = "open"
                          THEN <<Ev("wake_stream", "open_raise")>>
                          ELSE <<Ev("wake_stream", "open"),
                                 Ev("wake_stream", "read_raise")>>) \o
                       Speak("yes", mode, cloud_available,
                             offline_fallback_active, db, env)
    /\ last_activity' = now
    /\ pc' = "session"
    /\ wake' = "error"
    /\ listened' = FALSE
    /\ sessionFailed' = FALSE
    /\ UNCHANGED <<componentVars, mode, porcupine, db, flagVars, now,
                   command, probeVars, ttsEngine, exitSeen, interrupted>>

\* main.py:292-298 and 695-698: no wake-word engine, the operator presses
\* ENTER; nothing is spoken and the latch is left as it is
ManualActivation ==
    /\ pc = "sleeping"
    /\ ~porcupine
    /\ events' = <<Ev("input", "enter")>>
    /\ last_activity' = now
    /\ pc' = "session"
    /\ wake' = "manual"
    /\ listened' = FALSE
    /\ sessionFailed' = FALSE
    /\ UNCHANGED <<componentVars, wake_stream_open, mode, porcupine, db, flagVars, now, command,
                   probeVars, ttsEngine, exitSeen, interrupted>>

\* main.py:297 and 725-730: input() raises (end of input); the exception
\* leaves the loop through `except Exception` and cleanup runs
ManualActivationFails ==
    /\ pc = "sleeping"
    /\ ~porcupine
    /\ events' = <<Ev("input", "raise")>>
    /\ pc' = "cleanup"
    /\ UNCHANGED <<componentVars, wake_stream_open, mode, porcupine, db, flagVars, clockVars, command,
                   probeVars, ttsEngine, ghostVars>>

\* A window test that never closes the session.
SessionOpenForever(t, la) ==
    TRUE

\* main.py:701: (time.time() - last_activity) < active_window
SessionOpen(t, la) ==
    (t - la) < SleepTimeout

\* A deadline that is reset by every listen, recognised or not.
NextLastActivityAlways(heard, t, la) ==
    t

\* main.py:711-712: last_activity = time.time() only `if command`
NextLastActivity(heard, t, la) ==
    IF heard # NoCommand THEN t ELSE la

\* main.py:701-704: the window is open but the session is paused: break
SessionPaused ==
    /\ pc = "session"
    /\ running
    /\ SessionOpen(now, last_activity)
    /\ paused
    /\ events' = <<Ev("session", "paused_break")>>
    /\ pc' = "sleeping"
    /\ UNCHANGED <<componentVars, wake_stream_open, mode, porcupine, db, flagVars, clockVars, command,
                   probeVars, ttsEngine, ghostVars>>

\* main.py:701 and 721: the inactivity window has elapsed; back to the top
\* of the outer loop, which listens for the wake word again
SessionTimeout ==
    /\ pc = "session"
    /\ running
    /\ ~SessionOpen(now, last_activity)
    /\ events' = <<Ev("session", "timeout")>>
    /\ pc' = "sleeping"
    /\ UNCHANGED <<componentVars, wake_stream_open, mode, porcupine, db, flagVars, clockVars, command,
                   probeVars, ttsEngine, ghostVars>>

\* main.py:686, 701 and 729-730: self.running is false, both loops end and
\* the finally clause runs cleanup
RunLoopExit ==
    /\ pc = "session"
    /\ ~running
    /\ events' = <<Ev("session", "stopped")>>
    /\ pc' = "cleanup"
    /\ UNCHANGED <<componentVars, wake_stream_open, mode, porcupine, db, flagVars, clockVars, command,
                   probeVars, ttsEngine, ghostVars>>

\* main.py:429-488 listen_for_command_online: the calls and the result
ListenOnline(res) ==
    IF res = "mic_raise" THEN <<Ev("cmd_stream", "open_raise")>>
    ELSE IF res = "silence"
      THEN <<Ev("cmd_stream", "open"), Ev("cmd_stream", "close")>>
      ELSE <<Ev("cmd_stream", "open"), Ev("stt_remote", res),
             Ev("cmd_stream", "close")>>

\* A local listen that leaves its stream open.
ListenLocalNoClose(res) ==
    IF res = "mic_raise" THEN <<Ev("cmd_stream", "open_raise")>>
    ELSE <<Ev("cmd_stream", "open"), Ev("stt_local", res)>>

\* main.py:335-426 listen_for_command: the calls and the result
ListenLocal(res) ==
    IF res = "mic_raise" THEN <<Ev("cmd_stream", "open_raise")>>
    ELSE <<Ev("cmd_stream", "open"), Ev("stt_local", res),
           Ev("cmd_stream", "close")>>

\* A listen whose error leaves the loop.
PcAfterListenFatal(res, heard) ==
    IF res \in {"raise", "mic_raise"} THEN "cleanup"
    ELSE IF heard # NoCommand THEN "dispatch" ELSE "session"

\* main.py:397-399, 475-480 and 711-718: every error of a listen is caught
\* and reported as no command; the loop goes on
PcAfterListen(res, heard) ==
    IF heard # NoCommand THEN "dispatch" ELSE "session"

\* main.py:701-718: one listen of the inner loop; a recognised command
\* resets the deadline and is handed to process_command
ListenForCommand ==
    /\ pc = "session"
    /\ running
    /\ SessionOpen(now, last_activity)
    /\ ~paused
    /\ \E d \in 0..ListenTimeout, res \in {"text", "empty", "raise", "silence", "mic_raise"} :
          /\ now + d <= MaxTime
          /\ now' = now + d
          /\ OnlineListen(mode, cloud_available, offline_fallback_active)
                \/ res \in {"text", "empty", "mic_raise"}
          /\ events' = IF OnlineListen(mode, cloud_available, offline_fallback_active)
                         THEN ListenOnline(res) ELSE ListenLocal(res)
          /\ \E heard \in (IF res = "text" THEN Commands ELSE {NoCommand}) :
                /\ command' = heard
                /\ last_activity' = NextLastActivity(heard, now', last_activity)
                /\ pc' = PcAfterListen(res, heard)
    /\ listened' = TRUE
    /\ UNCHANGED <<componentVars, wake_stream_open, mode, porcupine, db, flagVars, probeVars, ttsEngine,
                   wake, sessionFailed, exitSeen, interrupted>>

\* ------------------------------------------------------------------------
\* process_command
\* ------------------------------------------------------------------------
\* what stays the same in every branch of process_command
dispatchFrame ==
    <<componentVars, wake_stream_open, mode, porcupine, db, clockVars, command, probeVars, ttsEngine,
      wake, listened, interrupted>>

\* main.py:499-503: exit phrase
ProcessExit ==
    /\ pc = "dispatch"
    /\ Handler(CommandLower(command)) = "exit"
    /\ \E env \in SpeakEnv :
          events' = <<Ev("handler", "exit")>> \o
                    Speak("farewell", mode, cloud_available,
                          offline_fallback_active, db, env)
    /\ running' = FALSE
    /\ exitSeen' = TRUE
    /\ pc' = "session"
    /\ UNCHANGED <<dispatchFrame, paused, cloud_available,
                   offline_fallback_active, sessionFailed>>

\* main.py:504-520: pause phrase; playback and the local engine are
\* stopped, then the resume prompt is spoken
ProcessPause ==
    /\ pc = "dispatch"
    /\ Handler(CommandLower(command)) = "pause"
    /\ paused' = TRUE
    /\ \E sd \in Outcome, env \in SpeakEnv :
          events' = <<Ev("handler", "pause"), Ev("stop_playback", "set"),
                      Ev("shutdown_tts", sd)>> \o
                    Speak("paused_prompt", mode, cloud_available,
                          offline_fallback_active, db, env)
    /\ pc' = "session"
    /\ UNCHANGED <<dispatchFrame, running, cloud_available,
                   offline_fallback_active, sessionFailed, exitSeen>>

\* main.py:522-561: a priority local handler computes a reply and speaks it
ProcessLocal(h) ==
    /\ pc = "dispatch"
    /\ Handler(CommandLower(command)) = h
    /\ \E env \in SpeakEnv :
          events' = <<Ev("handler", h)>> \o
                    Speak(h, mode, cloud_available,
                          offline_fallback_active, db, env)
    /\ pc' = "session"
    /\ UNCHANGED <<dispatchFrame, flagVars, sessionFailed, exitSeen>>

\* main.py:523-528
ProcessTime == ProcessLocal("time")

\* main.py:530-535
ProcessDate == ProcessLocal("date")

\* main.py:537-547
ProcessWeather == ProcessLocal("weather")

\* main.py:549-555
ProcessNews == ProcessLocal("news")

\* main.py:557-561
ProcessApp == ProcessLocal("app")

\* main.py:586-597: the offline intent handler, then the canned replies of
\* _offline_response when it is missing, raises or yields nothing
OfflineAnswer(rasa, m, ca, latch, dbh, env) ==
    <<Ev("handler", "offline")>> \o
    (IF rasa = "unavailable" THEN <<>> ELSE <<Ev("rasa", rasa)>>) \o
    (IF rasa = "reply"
       THEN Speak("rasa_reply", m, ca, latch, dbh, env)
       ELSE <<Ev("offline_response", "reply")>> \o
            Speak("canned_reply", m, ca, latch, dbh, env))

RasaResult == {"unavailable", "raise", "empty", "reply"}

\* A failure handler that leaves the latch clear.
LatchAfterCloudFailureClear ==
    FALSE

\* main.py:583: self.offline_fallback_active = True
LatchAfterCloudFailure ==
    TRUE

\* main.py:563-579: the cloud language model answers (possibly with an
\* empty string) and the reply is spoken
ProcessCloud ==
    /\ pc = "dispatch"
    /\ Handler(CommandLower(command)) = "fallthrough"
    /\ CloudPermitted(mode, cloud_available, offline_fallback_active)
    /\ \E res \in {"reply", "empty"}, env \in SpeakEnv :
          events' = <<Ev("handler", "cloud"), Ev("llm", res)>> \o
                    Speak(IF res = "reply" THEN "cloud_reply" ELSE "",
                          mode, cloud_available, offline_fallback_active,
                          db, env)
    /\ pc' = "session"
    /\ UNCHANGED <<dispatchFrame, flagVars, sessionFailed, exitSeen>>

\* main.py:580-597: the cloud call raised; the flag is cleared, the latch
\* set, the notice spoken and the command answered offline
ProcessCloudFailure ==
    /\ pc = "dispatch"
    /\ Handler(CommandLower(command)) = "fallthrough"
    /\ CloudPermitted(mode, cloud_available, offline_fallback_active)
    /\ cloud_available' = FALSE
    /\ offline_fallback_active' = LatchAfterCloudFailure
    /\ \E rasa \in RasaResult, env1 \in SpeakEnv, env2 \in SpeakEnv :
          events' = <<Ev("handler", "cloud"), Ev("llm", "raise")>> \o
                    Speak("fallback_notice", mode, cloud_available',
                          offline_fallback_active', db, env1) \o
                    OfflineAnswer(rasa, mode, cloud_available',
                                  offline_fallback_active', db, env2)
    /\ sessionFailed' = TRUE
    /\ pc' = "session"
    /\ UNCHANGED <<dispatchFrame, running, paused, exitSeen>>

\* main.py:564 false, then 586-597
ProcessOffline ==
    /\ pc = "dispatch"
    /\ Handler(CommandLower(command)) = "fallthrough"
    /\ ~CloudPermitted(mode, cloud_available, offline_fallback_active)
    /\ \E rasa \in RasaResult, env \in SpeakEnv :
          events' = OfflineAnswer(rasa, mode, cloud_available,
                                  offline_fallback_active, db, env)
    /\ pc' = "session"
    /\ UNCHANGED <<dispatchFrame, flagVars, sessionFailed, exitSeen>>

\* ------------------------------------------------------------------------
\* Leaving the loop
\* ------------------------------------------------------------------------
\* main.py:723-724 and 729-730: Ctrl+C anywhere in the loop
KeyboardInterrupt ==
    /\ pc \in {"sleeping", "session", "dispatch"}
    /\ interrupted' = TRUE
    /\ events' = <<Ev("interrupt", "ctrl_c")>>
    /\ pc' = "cleanup"
    /\ UNCHANGED <<componentVars, wake_stream_open, mode, porcupine, db, flagVars, clockVars, command,
                   probeVars, ttsEngine, wake, listened, sessionFailed,
                   exitSeen>>

\* main.py:732-742 cleanup: porcupine.delete() and audio.terminate() in
\* sequence, with nothing catching an error of the first
Cleanup ==
    /\ pc = "cleanup"
    /\ \E del \in Outcome :
          events' = IF porcupine
                      THEN IF del = "ok"
                             THEN <<Ev("porcupine_delete", "ok"),
                                    Ev("audio_terminate", "ok")>>
                             ELSE <<Ev("porcupine_delete", "raise")>>
                      ELSE <<Ev("audio_terminate", "ok")>>
    /\ pc' = "done"
    /\ UNCHANGED <<componentVars, wake_stream_open, mode, porcupine, db, flagVars, clockVars, command,
                   probeVars, ttsEngine, ghostVars>>

Next ==
    \/ Requirements
    \/ InitTts
    \/ InitAudio
    \/ InitSpeechRecognition
    \/ InitWakeWord
    \/ CheckCloudAvailability
    \/ InitDb
    \/ RunStart
    \/ WakeWordDetected
    \/ WakeWordError
    \/ ManualActivation
    \/ ManualActivationFails
    \/ SessionPaused
    \/ SessionTimeout
    \/ RunLoopExit
    \/ ListenForCommand
    \/ ProcessExit
    \/ ProcessPause
    \/ ProcessTime
    \/ ProcessDate
    \/ ProcessWeather
    \/ ProcessNews
    \/ ProcessApp
    \/ ProcessCloud
    \/ ProcessCloudFailure
    \/ ProcessOffline
    \/ KeyboardInterrupt
    \/ Cleanup

Spec == Init /\ [][Next]_vars

\* The main thread keeps executing its program; the interrupt is the
\* operator's and is not forced.
Program ==
    \/ SessionPaused
    \/ SessionTimeout
    \/ RunLoopExit
    \/ ProcessExit
    \/ ProcessPause
    \/ ProcessTime
    \/ ProcessDate
    \/ ProcessWeather
    \/ ProcessNews
    \/ ProcessApp
    \/ ProcessCloud
    \/ ProcessCloudFailure
    \/ ProcessOffline
    \/ Cleanup

FairSpec == Spec /\ WF_vars(Program)

TypeOK ==
    /\ pc \in {"requirements", "init_tts", "init_audio", "init_speech",
               "init_wake_word", "check_cloud", "init_db", "run",
               "sleeping", "session", "dispatch", "cleanup", "done", "exited"}
    /\ mode \in Modes
    /\ command \in Commands \cup {NoCommand}
    /\ now \in 0..MaxTime
    /\ last_activity \in 0..now

\* ------------------------------------------------------------------------
\* Reading the events of a step
\* ------------------------------------------------------------------------
Has(es, o) ==
    \E i \in 1..Len(es) : es[i].op = o

HasEv(es, o, r) ==
    \E i \in 1..Len(es) : es[i] = Ev(o, r)

CloudOps == {"llm", "stt_remote", "synth"}

NoCloud(es) ==
    \A i \in 1..Len(es) : es[i].op \notin CloudOps

\* the handlers a dispatch ran, in order
HandlersRun(es) ==
    LET hs == SelectSeq(es, LAMBDA e : e.op = "handler")
    IN  [i \in 1..Len(hs) |-> hs[i].res]

\* the state right after process_command returned
Dispatched ==
    pc = "session" /\ command # NoCommand /\ Has(events, "handler")

\* the keyword handlers in the order the dispatch is documented to try them
KeywordOrder ==
    <<"exit", "pause", "time", "date", "weather", "news", "app">>

KeywordsOf(h) ==
    CASE h = "exit" -> ExitWords
      [] h = "pause" -> PauseWords
      [] h = "time" -> TimeWords
      [] h = "date" -> DateWords
      [] h = "weather" -> WeatherWords
      [] h = "news" -> NewsWords
      [] h = "app" -> AppWords

\* the command matches no keyword handler
NonLocal(c) ==
    \A i \in 1..Len(KeywordOrder) :
        ~MatchesAny(KeywordsOf(KeywordOrder[i]), CommandLower(c))

\* ------------------------------------------------------------------------
\* Properties
\* ------------------------------------------------------------------------

\* C1: every dispatched command is handled by the first handler, in the
\* order exit, pause, time, date, weather, news, application launch, whose
\* keyword occurs in it, and by no other keyword handler; a command with no
\* keyword goes to the cloud and/or the offline handler; a command matching
\* a time, date, weather, news or application keyword never calls the cloud
\* language model or the offline intent handler, whatever the flags are.
C1_DispatchOrder ==
    Dispatched =>
      LET s == CommandLower(command)
          ran == HandlersRun(events)
          hit(i) == MatchesAny(KeywordsOf(KeywordOrder[i]), s)
      IN  /\ \A i \in 1..Len(KeywordOrder) :
                (hit(i) /\ \A j \in 1..(i - 1) : ~hit(j))
                   => ran = <<KeywordOrder[i]>>
          /\ NonLocal(command)
                => ran \in {<<"cloud">>, <<"offline">>, <<"cloud", "offline">>}
          /\ (\E i \in 3..Len(KeywordOrder) : hit(i))
                => /\ ~Has(events, "llm")
                   /\ ~Has(events, "rasa")
                   /\ ~Has(events, "offline_response")

\* C1 witness: a command with both an application keyword and a time
\* keyword was answered by the time handler alone while the cloud was usable.
C1_Witness ==
    /\ Dispatched
    /\ MatchesAny(AppWords, CommandLower(command))
    /\ HandlersRun(events) = <<"time">>
    /\ CloudPermitted(mode, cloud_available, offline_fallback_active)

\* a wake event, a listen or a dispatch can still happen
CanListenOrDispatch ==
    \/ ENABLED ListenForCommand
    \/ ENABLED WakeWordDetected
    \/ ENABLED WakeWordError
    \/ ENABLED ManualActivation
    \/ pc = "dispatch"

\* C2: a dispatched command containing an exit phrase has the farewell
\* spoken and running false, whatever else it contains and whatever the
\* flags are; after that no command is listened for or dispatched, and the
\* run ends with cleanup done.
C2_ExitEndsRun ==
    /\ [](Dispatched /\ MatchesAny(ExitWords, CommandLower(command))
            => /\ HasEv(events, "speak", "farewell")
               /\ ~running
               /\ exitSeen)
    /\ [](exitSeen => ~running /\ ~CanListenOrDispatch)
    /\ (exitSeen ~> (pc = "done" /\ (Has(events, "audio_terminate")
                                       \/ Has(events, "porcupine_delete"))))

\* C2 witness: the run ended after an exit phrase that also contained the
\* pause phrase, with no interrupt.
C2_Witness ==
    /\ pc = "done"
    /\ exitSeen
    /\ ~interrupted
    /\ MatchesAny(PauseWords, CommandLower(command))

\* C3: after a pause the session is resumable: a session opened by a wake
\* event (wake word or manual activation) while the pause flag is set
\* listens for a command before control is back at Sleeping.
C3_PauseResumable ==
    (pc = "sleeping" /\ paused /\ wake \in {"wake_word", "manual"})
       => listened

\* one listen of the inner loop has just been made
ListenStep ==
    pc = "session" /\ Has(events', "cmd_stream")

\* C4: a listen that recognises a command sets the inactivity deadline to
\* the time of recognition and a listen that recognises nothing leaves it
\* alone; when the loop is tested with sleep_timeout or more elapsed since
\* the last recognised command the session ends, control is back at
\* Sleeping and the process is still running (unless it is interrupted).
C4_InactivityDeadline ==
    /\ [][ListenStep =>
            /\ command' # NoCommand => last_activity' = now'
            /\ command' = NoCommand => last_activity' = last_activity]_vars
    /\ [][(pc = "session" /\ running /\ now - last_activity >= SleepTimeout)
            => \/ pc' = "sleeping" /\ running' /\ ~Has(events', "cmd_stream")
               \/ interrupted']_vars

\* C4 witness: a session in which a command had been recognised ended on
\* the inactivity deadline and the assistant is Sleeping and running.
C4_Witness ==
    /\ pc = "sleeping"
    /\ HasEv(events, "session", "timeout")
    /\ running
    /\ ~paused
    /\ last_activity > 0
    /\ now - last_activity >= SleepTimeout

\* C5: in mode offline no step calls the cloud language model, remote
\* transcription or remote synthesis, whatever the cloud-available flag is;
\* in modes online and auto a command with no keyword calls the cloud
\* language model exactly when the flag is set and the latch is clear.
C5_CloudGate ==
    /\ [](mode = "offline" => NoCloud(events))
    /\ [][(pc = "dispatch" /\ pc' = "session" /\ mode \in {"online", "auto"}
            /\ NonLocal(command))
            => (Has(events', "llm")
                  <=> (cloud_available /\ ~offline_fallback_active))]_vars

\* C5 witness: in mode offline, with the cloud probed available, a command
\* with no keyword was answered offline.
C5_Witness ==
    /\ mode = "offline"
    /\ cloud_available
    /\ Dispatched
    /\ NonLocal(command)
    /\ HandlersRun(events) = <<"offline">>

\* the events of a failed cloud call: the failure, then the notice, then
\* the offline path, then a non-empty answer
FailureThenOffline(es) ==
    \E i, j, k, l \in 1..Len(es) :
        /\ i < j /\ j < k /\ k < l
        /\ es[i] = Ev("llm", "raise")
        /\ es[j] = Ev("speak", "fallback_notice")
        /\ es[k] = Ev("handler", "offline")
        /\ es[l].op = "speak" /\ es[l].res # ""

\* C6: a step in which the cloud language-model call fails sets the latch,
\* speaks the fallback notice and then answers the same command through the
\* offline path; no later step of that session calls the cloud language
\* model, remote transcription or remote synthesis.
C6_FailureLatches ==
    /\ [](HasEv(events, "llm", "raise")
            => /\ offline_fallback_active
               /\ sessionFailed
               /\ FailureThenOffline(events))
    /\ [][sessionFailed => NoCloud(events')]_vars

\* C6 witness: a cloud call failed and a later command of the same session
\* with no keyword was answered offline.
C6_Witness ==
    /\ sessionFailed
    /\ Dispatched
    /\ NonLocal(command)
    /\ HandlersRun(events) = <<"offline">>
    /\ mode = "auto"

\* C7: the latch is per-session: a session opened by a wake event starts
\* with the latch clear, and in a session in which no cloud call has failed
\* a command with no keyword is sent to the cloud language model (modes
\* online and auto, cloud probed available at construction).
C7_LatchPerSession ==
    /\ []((pc = "session" /\ wake \in {"wake_word", "manual"} /\ ~listened)
            => ~offline_fallback_active)
    /\ [][(pc = "dispatch" /\ pc' = "session" /\ ~sessionFailed
            /\ internet = "true" /\ cloudProbe = "true"
            /\ mode \in {"online", "auto"} /\ NonLocal(command))
            => Has(events', "llm")]_vars

\* the number of conversation inserts that follow the speak at position i
\* before the next speak
InsertsAfter(es, i) ==
    Cardinality({j \in (i + 1)..Len(es) :
                    /\ es[j].op = "insert"
                    /\ \A k \in (i + 1)..j : es[k].op # "speak"})

\* C8: with a conversation store available every non-empty reply passed to
\* speak is followed by exactly one insert, on the remote and on the local
\* route alike.
C8_EveryReplyPersisted ==
    db => \A i \in 1..Len(events) :
             (events[i].op = "speak" /\ events[i].res # "")
                => InsertsAfter(events, i) = 1

\* C9: after _check_cloud_availability the flag is true when both probes
\* returned true and false when either returned false or raised; the cloud
\* probe is not attempted unless internet is reachable; the step always
\* continues with the construction.
C9_CloudFlagAfterConstruction ==
    /\ [](pc \in {"init_db", "run"} =>
            /\ (internet = "true" /\ cloudProbe = "true") => cloud_available
            /\ (internet \in {"false", "raise"}) => ~cloud_available
            /\ (cloudProbe \in {"false", "raise"}) => ~cloud_available
            /\ (internet # "true") => cloudProbe = "unprobed"
            /\ internet # "unprobed")
    /\ [][pc = "check_cloud" => pc' = "init_db"]_vars

\* C9 witness: internet was reachable, the cloud probe raised, and the
\* construction went on with the flag false.
C9_Witness ==
    /\ pc = "init_db"
    /\ internet = "true"
    /\ cloudProbe = "raise"
    /\ ~cloud_available

\* C10: if the local engine fails on the readiness phrase the process
\* terminates and the run loop is never entered.
C10_TtsFailureFatal ==
    ttsEngine = "raise" => pc \notin {"run", "sleeping", "session", "dispatch"}

\* C11: a failure while initialising the wake-word engine, probing the cloud
\* or opening the conversation store never terminates the process; the
\* construction goes on with the feature off (no engine, flag false, no
\* store).
C11_OptionalInitSoft ==
    /\ [][(pc \in {"init_wake_word", "check_cloud", "init_db"})
            => pc' # "exited"]_vars
    /\ []((pc = "check_cloud" /\ Has(events, "porcupine_create")
             /\ ~HasEv(events, "porcupine_create", "created"))
            => ~porcupine)
    /\ []((pc = "init_db" /\ (internet # "true" \/ cloudProbe # "true"))
            => ~cloud_available)
    /\ []((Has(events, "DBManager") /\ ~HasEv(events, "DBManager", "ok"))
            => (~db /\ pc = "run"))

\* C11 witness: the store failed to open after a failed probe and no
\* wake-word engine, and the run loop is about to start.
C11_Witness ==
    /\ pc = "run"
    /\ HasEv(events, "DBManager", "raise")
    /\ ~porcupine
    /\ internet = "raise"

\* C12: however the run loop exits, cleanup releases the wake-word engine
\* handle (when there is one) and the microphone subsystem handle, also
\* when releasing the first fails.
C12_CleanupReleasesBoth ==
    pc = "done"
       => /\ Has(events, "audio_terminate")
          /\ porcupine => Has(events, "porcupine_delete")

\* C13 as stated: the loop is left only after an exit phrase or on a
\* keyboard interrupt.
C13_OnlyExitOrInterrupt ==
    [][(pc \in {"sleeping", "session", "dispatch"} /\ pc' = "cleanup")
         => (exitSeen \/ interrupted')]_vars

\* C13: a failure while listening for or dispatching a command never ends
\* the loop, which goes on to the next listen cycle; the loop is left only
\* after an exit phrase, on a keyboard interrupt, or when the
\* manual-activation prompt itself raises.
C13_LoopSurvivesCommandFailure ==
    /\ [][ListenStep => pc' \in {"session", "dispatch"}]_vars
    /\ [][pc = "dispatch" => (pc' = "session" \/ interrupted')]_vars
    /\ [][(pc \in {"sleeping", "session", "dispatch"} /\ pc' = "cleanup")
            => \/ exitSeen
               \/ interrupted'
               \/ HasEv(events', "input", "raise")]_vars

\* C13 witness: the microphone failed during a listen and the session is
\* still running.
C13_Witness ==
    /\ pc = "session"
    /\ HasEv(events, "cmd_stream", "open_raise")
    /\ running
    /\ ~interrupted

\* C14: every dispatched command hands at least one non-empty sentence to
\* speech output.
C14_AlwaysSpoken ==
    Dispatched => \E i \in 1..Len(events) :
                     events[i].op = "speak" /\ events[i].res # ""

\* the command stream of the last listen was opened and then closed
CommandStreamClosed(es) ==
    \E i, j \in 1..Len(es) :
        /\ i < j
        /\ es[i] = Ev("cmd_stream", "open")
        /\ es[j] = Ev("cmd_stream", "close")
        /\ \A k \in (j + 1)..Len(es) : es[k].op # "cmd_stream"

C15_StreamsExclusive ==
    /\ HasEv(events, "cmd_stream", "open") => ~wake_stream_open
    /\ (pc = "session" /\ Has(events, "wake_stream")) => ~wake_stream_open

\* ------------------------------------------------------------------------
\* The realtime agent (agents/realtime.py): operations
\* ------------------------------------------------------------------------
\* what requests.get of the connectivity probe does: status 204, another
\* status, or an exception
InternetProbes == {"204", "status", "raise"}

HasInternetAnyStatus(probe) ==
    probe # "raise"

\* network_utils.py:17-30 has_internet
HasInternet(probe) ==
    probe = "204"

CacheFreshInclusive(ts, t) ==
    ts # 0 /\ (t - ts) <= CacheTtl

\* realtime.py:23: ts and (time.time() - ts) < self.ttl
CacheFresh(ts, t) ==
    ts # 0 /\ (t - ts) < CacheTtl

\* realtime.py:21-25 TTLCache.get
TTLGet(store, stamps, key, t) ==
    IF CacheFresh(stamps[key], t) THEN store[key] ELSE None

\* what one request to the weather endpoint does: status 200 with a body,
\* another status, or an exception
WeatherOutcomes ==
    {<<"ok", b>> : b \in WeatherBodies} \cup {<<"status">>, <<"raise">>}

\* what one request to the headlines endpoint does: status 200 with titled
\* articles, status 200 with no articles, another status, or an exception
NewsOutcomes ==
    {<<"ok", t>> : t \in NewsTitles}
        \cup {<<"empty">>, <<"status">>, <<"raise">>}

\* realtime.py:54-55 and 84-85: an exception is followed by a sleep
AfterAttempt(o) ==
    IF o[1] = "raise" THEN <<Ev("request", o), Ev("sleep", <<>>)>>
    ELSE <<Ev("request", o)>>

RECURSIVE WeatherFetchFrom(_, _)
WeatherFetchNoRetry(outs, tries) ==
    IF outs[tries + 1][1] = "ok"
    THEN [result |-> WeatherReply(outs[tries + 1][2]),
          calls |-> <<Ev("request", outs[tries + 1])>>]
    ELSE [result |-> WeatherUnable, calls |-> AfterAttempt(outs[tries + 1])]

\* realtime.py:43-57 get_weather._fetch, from the loop test on
WeatherFetchFrom(outs, tries) ==
    IF tries < FetchTries
    THEN LET o == outs[tries + 1]
             rest == WeatherFetchFrom(outs, tries + 1)
         IN  IF o[1] = "ok"
             THEN [result |-> WeatherReply(o[2]),
                   calls |-> <<Ev("request", o)>>]
             ELSE [result |-> rest.result,
                   calls |-> AfterAttempt(o) \o rest.calls]
    ELSE [result |-> WeatherUnable, calls |-> <<>>]

\* realtime.py:75-87 get_news._fetch, from the loop test on
RECURSIVE NewsFetchFrom(_, _)
NewsFetchFrom(outs, tries) ==
    IF tries < FetchTries
    THEN LET o == outs[tries + 1]
             rest == NewsFetchFrom(outs, tries + 1)
         IN  CASE o[1] = "ok" ->
                    [result |-> NewsReply(o[2]),
                     calls |-> <<Ev("request", o)>>]
               [] o[1] = "empty" ->
                    [result |-> NewsNone,
                     calls |-> <<Ev("request", o)>>]
               [] OTHER ->
                    [result |-> rest.result,
                     calls |-> AfterAttempt(o) \o rest.calls]
    ELSE [result |-> NewsUnavailable, calls |-> <<>>]

\* the api_key argument of get_news
ApiKeys == {None, <<"key">>}

\* A fetch that goes to the network without a key.
NewsFetchWithoutKey(api_key, outs) ==
    NewsFetchFrom(outs, 0)

\* realtime.py:69-87 get_news._fetch
NewsFetch(api_key, outs) ==
    IF api_key = None
    THEN [result |-> NewsNotConfigured, calls |-> <<>>]
    ELSE NewsFetchFrom(outs, 0)

\* the values a caller writes to the cache directly
CacheValues == {<<"ok">>}

\* time passes
RtTick ==
    /\ rt_clock < MaxClock
    /\ rt_clock' = rt_clock + 1
    /\ rt_events' = <<Ev("tick", <<>>)>>
    /\ UNCHANGED <<cache_store, cache_timestamps, rt_result>>
    /\ UNCHANGED rtFrame

\* realtime.py:27-29 TTLCache.set
CacheSet(key, value) ==
    /\ cache_store' = [cache_store EXCEPT ![key] = value]
    /\ cache_timestamps' = [cache_timestamps EXCEPT ![key] = rt_clock]
    /\ rt_result' = None
    /\ rt_events' = <<Ev("cache_set", key), Ev("value", value)>>
    /\ UNCHANGED rt_clock
    /\ UNCHANGED rtFrame

\* realtime.py:21-25 TTLCache.get
CacheGet(key) ==
    /\ rt_result' = TTLGet(cache_store, cache_timestamps, key, rt_clock)
    /\ rt_events' = <<Ev("cache_get", key)>>
    /\ UNCHANGED <<cache_store, cache_timestamps, rt_clock>>
    /\ UNCHANGED rtFrame

\* realtime.py:36-42 and 58-60, 62-68 and 88-90: the connectivity check, the
\* cache lookup, then one of the fetches, which takes d ticks, and the cache
\* write
AgentAnswer(name, key, probe, needsInternet, fetches) ==
    LET cached == TTLGet(cache_store, cache_timestamps, key, rt_clock)
        entry == <<Ev(name, key), Ev("has_internet", <<probe>>)>>
    IN  IF ~HasInternet(probe)
        THEN /\ rt_result' = needsInternet
             /\ rt_events' = entry
             /\ UNCHANGED <<cache_store, cache_timestamps, rt_clock>>
        ELSE IF cached # None
        THEN /\ rt_result' = cached
             /\ rt_events' = entry \o <<Ev("cache_get", key)>>
             /\ UNCHANGED <<cache_store, cache_timestamps, rt_clock>>
        ELSE \E f \in fetches, d \in 0..1 :
             /\ rt_clock + d <= MaxClock
             /\ rt_clock' = rt_clock + d
             /\ cache_store' = [cache_store EXCEPT ![key] = f.result]
             /\ cache_timestamps' =
                    [cache_timestamps EXCEPT ![key] = rt_clock + d]
             /\ rt_result' = f.result
             /\ rt_events' = entry \o <<Ev("cache_get", key)>> \o f.calls
                                \o <<Ev("cache_set", key)>>

\* realtime.py:36-60 RealtimeAgent.get_weather
GetWeather(location) ==
    /\ \E probe \in InternetProbes :
            AgentAnswer("get_weather", WeatherKey(location), probe,
                        WeatherNeedsInternet,
                        {WeatherFetchFrom(outs, 0) :
                            outs \in [1..FetchTries -> WeatherOutcomes]})
    /\ UNCHANGED rtFrame

\* realtime.py:62-90 RealtimeAgent.get_news
GetNews(country, api_key) ==
    /\ \E probe \in InternetProbes :
            AgentAnswer("get_news", NewsKey(country), probe,
                        NewsNeedsInternet,
                        {NewsFetch(api_key, outs) :
                            outs \in [1..FetchTries -> NewsOutcomes]})
    /\ UNCHANGED rtFrame

\* the agent of an assistant in automatic mode, before the first subsystem
\* is set up
InitRealtime ==
    /\ Init
    /\ mode = "auto"

NextRealtime ==
    \/ RtTick
    \/ \E k \in CacheKeys, v \in CacheValues : CacheSet(k, v)
    \/ \E k \in CacheKeys : CacheGet(k)
    \/ \E l \in Locations : GetWeather(l)
    \/ \E c \in Countries, a \in ApiKeys : GetNews(c, a)

SpecRealtime == InitRealtime /\ [][NextRealtime]_vars

RealtimeTypeOK ==
    /\ rt_clock \in 1..MaxClock
    /\ DOMAIN cache_store = CacheKeys
    /\ cache_timestamps \in [CacheKeys -> 0..MaxClock]
    /\ \A k \in CacheKeys : cache_timestamps[k] = 0 <=> cache_store[k] = None
    /\ pc = "requirements"

\* ------------------------------------------------------------------------
\* Properties of the realtime agent
\* ------------------------------------------------------------------------
\* the last step was the agent call `name`
AgentCalled(es, name) ==
    Len(es) > 1 /\ es[1].op = name

\* the last step was an agent call that detected internet / detected none
DetectedInternet(es) ==
    /\ AgentCalled(es, "get_weather") \/ AgentCalled(es, "get_news")
    /\ es[2].res = <<"204">>

DetectedNoInternet(es) ==
    /\ AgentCalled(es, "get_weather") \/ AgentCalled(es, "get_news")
    /\ es[2].res # <<"204">>

\* the requests of the last step, in order
Requests(es) ==
    SelectSeq(es, LAMBDA e : e.op = "request")

\* the entry of key k was written at time ts[k] and is younger than the ttl
WrittenWithinTtl(ts, k, t) ==
    ts[k] # 0 /\ t - ts[k] < CacheTtl

\* C17: a get_weather or get_news call that detects no internet returns
\* its fixed message, leaves every cache entry and timestamp as it was, and
\* makes no request, whatever the arguments and the cache content.
C17_NoInternetNoEffect ==
    [][DetectedNoInternet(rt_events')
        => /\ AgentCalled(rt_events', "get_weather")
                => rt_result' = WeatherNeedsInternet
           /\ AgentCalled(rt_events', "get_news")
                => rt_result' = NewsNeedsInternet
           /\ cache_store' = cache_store
           /\ cache_timestamps' = cache_timestamps
           /\ ~Has(rt_events', "request")
           /\ ~Has(rt_events', "cache_set")]_vars

\* C17 witness: a get_news call without internet has returned the fixed
\* message while a fresh entry for its key is in the cache.
C17_Witness ==
    /\ DetectedNoInternet(rt_events)
    /\ AgentCalled(rt_events, "get_news")
    /\ rt_result = NewsNeedsInternet
    /\ WrittenWithinTtl(cache_timestamps, NewsKey(<<"in">>), rt_clock)

C18_WitnessHit ==
    \E k \in CacheKeys :
        /\ rt_events = <<Ev("cache_get", k)>>
        /\ WrittenWithinTtl(cache_timestamps, k, rt_clock)
        /\ rt_result = cache_store[k]
        /\ rt_result # None

\* the attempts qs of one fetch are at most 2, stop at the first success,
\* and give r: the success string of that attempt, or the failure message
\* after 2 failed attempts
TwoAttempts(qs, r) ==
    /\ Len(qs) \in 1..2
    /\ \A i \in 1..(Len(qs) - 1) : qs[i].res[1] # "ok"
    /\ IF qs[Len(qs)].res[1] = "ok"
       THEN r = WeatherReply(qs[Len(qs)].res[2])
       ELSE Len(qs) = 2 /\ r = WeatherUnable

\* get_weather on a miss: at most 2 attempts, and what it returns is written
\* to the cache
MissFetchesTwice ==
    [][\A l \in Locations :
        (/\ AgentCalled(rt_events', "get_weather")
         /\ DetectedInternet(rt_events')
         /\ rt_events'[1].res = WeatherKey(l)
         /\ ~WrittenWithinTtl(cache_timestamps, WeatherKey(l), rt_clock))
            => /\ TwoAttempts(Requests(rt_events'), rt_result')
               /\ cache_store'[WeatherKey(l)] = rt_result'
               /\ cache_timestamps'[WeatherKey(l)] = rt_clock']_vars

\* C19 as stated: on a miss get_weather makes at most 2 attempts and caches
\* what it returns, and every get_weather call for a key whose cached
\* failure message is younger than ttl returns the failure message without
\* a request.
C19_FailureReplayedAlways ==
    /\ MissFetchesTwice
    /\ [][\A l \in Locations :
            (/\ AgentCalled(rt_events', "get_weather")
             /\ rt_events'[1].res = WeatherKey(l)
             /\ cache_store[WeatherKey(l)] = WeatherUnable
             /\ WrittenWithinTtl(cache_timestamps, WeatherKey(l), rt_clock))
                => /\ rt_result' = WeatherUnable
                   /\ ~Has(rt_events', "request")]_vars

\* C19: on a miss get_weather makes at most 2 attempts and caches what it
\* returns, and every get_weather call that detects internet, for a key
\* whose cached failure message is younger than ttl, returns the failure
\* message without a request.
C19_FailureReplayedOnline ==
    /\ MissFetchesTwice
    /\ [][\A l \in Locations :
            (/\ AgentCalled(rt_events', "get_weather")
             /\ DetectedInternet(rt_events')
             /\ rt_events'[1].res = WeatherKey(l)
             /\ cache_store[WeatherKey(l)] = WeatherUnable
             /\ WrittenWithinTtl(cache_timestamps, WeatherKey(l), rt_clock))
                => /\ rt_result' = WeatherUnable
                   /\ ~Has(rt_events', "request")]_vars

\* C19 witness: with internet, a get_weather call has returned the cached
\* failure message without a request.
C19_Witness ==
    /\ AgentCalled(rt_events, "get_weather")
    /\ DetectedInternet(rt_events)
    /\ rt_result = WeatherUnable
    /\ ~Has(rt_events, "request")

\* ------------------------------------------------------------------------
\* The local speech engine (offline/tts_engine.py): operations
\* ------------------------------------------------------------------------
NeedsWorkerNoCheck(wt, wpc) ==
    TRUE

\* tts_engine.py:117: worker_thread is None or not worker_thread.is_alive()
NeedsWorker(wt, wpc) ==
    wt = NoWorker \/ ~Alive(wpc, wt)

\* the next thread object threading.Thread() creates
NewWorker(wpc) ==
    CHOOSE w \in Workers :
        /\ wpc[w] = "unstarted"
        /\ \A v \in Workers : wpc[v] = "unstarted" => w <= v

\* tts_engine.py:121-126 speak up to the put, with ensure_worker_started
\* (112-119) run under worker_lock
SpeakBegin(c, wait) ==
    /\ caller_pc[c] = "idle"
    /\ tts_speaks < MaxSpeaks
    /\ tts_speaks' = tts_speaks + 1
    /\ caller_item' = [caller_item EXCEPT ![c] = tts_speaks + 1]
    /\ caller_wait' = [caller_wait EXCEPT ![c] = wait]
    /\ caller_pc' = [caller_pc EXCEPT ![c] = "put"]
    /\ IF NeedsWorker(worker_thread, worker_pc)
       THEN /\ \E w \in Workers : worker_pc[w] = "unstarted"
            /\ worker_thread' = NewWorker(worker_pc)
            /\ worker_pc' = [worker_pc EXCEPT ![NewWorker(worker_pc)] = "init"]
       ELSE UNCHANGED <<worker_thread, worker_pc>>
    /\ UNCHANGED <<tts_queue, worker_item, speech_complete, tts_engine,
                   tts_shutdowns, tts_enqueued, tts_spoken>>
    /\ UNCHANGED ttsFrame

\* tts_engine.py:127-130 tts_queue.put((text, lang_code, wait))
SpeakPut(c) ==
    /\ caller_pc[c] = "put"
    /\ tts_queue' = Append(tts_queue, caller_item[c])
    /\ tts_enqueued' = Append(tts_enqueued, caller_item[c])
    /\ caller_pc' =
           [caller_pc EXCEPT ![c] = IF caller_wait[c] THEN "wait" ELSE "idle"]
    /\ UNCHANGED <<worker_thread, worker_pc, worker_item, speech_complete,
                   tts_engine, caller_item, caller_wait, tts_speaks,
                   tts_shutdowns, tts_spoken>>
    /\ UNCHANGED ttsFrame

\* tts_engine.py:132-134 speech_complete.wait returns because the event is
\* set
WaitReleased(c) ==
    /\ caller_pc[c] = "wait"
    /\ speech_complete
    /\ caller_pc' = [caller_pc EXCEPT ![c] = "idle"]
    /\ caller_wait' = [caller_wait EXCEPT ![c] = FALSE]
    /\ UNCHANGED <<tts_queue, worker_thread, worker_pc, worker_item,
                   speech_complete, tts_engine, caller_item, tts_speaks,
                   tts_shutdowns, tts_enqueued, tts_spoken>>
    /\ UNCHANGED ttsFrame

\* tts_engine.py:132-134 speech_complete.wait(timeout=10) times out
WaitTimedOut(c) ==
    /\ caller_pc[c] = "wait"
    /\ ~speech_complete
    /\ caller_pc' = [caller_pc EXCEPT ![c] = "idle"]
    /\ UNCHANGED <<tts_queue, worker_thread, worker_pc, worker_item,
                   speech_complete, tts_engine, caller_item, caller_wait,
                   tts_speaks, tts_shutdowns, tts_enqueued, tts_spoken>>
    /\ UNCHANGED ttsFrame

\* tts_engine.py:136-141 tts_queue.put(None)
ShutdownBegin(c) ==
    /\ caller_pc[c] = "idle"
    /\ tts_shutdowns < MaxShutdowns
    /\ tts_shutdowns' = tts_shutdowns + 1
    /\ tts_queue' = Append(tts_queue, Sentinel)
    /\ caller_pc' = [caller_pc EXCEPT ![c] = "join"]
    /\ UNCHANGED <<worker_thread, worker_pc, worker_item, speech_complete,
                   tts_engine, caller_item, caller_wait, tts_speaks,
                   tts_enqueued, tts_spoken>>
    /\ UNCHANGED ttsFrame

\* tts_engine.py:144-145: the join returns when the worker has ended or
\* after its timeout, and is skipped when there is no live worker
ShutdownJoin(c) ==
    /\ caller_pc[c] = "join"
    /\ caller_pc' = [caller_pc EXCEPT ![c] = "stop_engine"]
    /\ UNCHANGED <<tts_queue, worker_thread, worker_pc, worker_item,
                   speech_complete, tts_engine, caller_item, caller_wait,
                   tts_speaks, tts_shutdowns, tts_enqueued, tts_spoken>>
    /\ UNCHANGED ttsFrame

\* tts_engine.py:148-156: engine.stop() and engine = None under engine_lock
ShutdownEngine(c) ==
    /\ caller_pc[c] = "stop_engine"
    /\ tts_engine' = FALSE
    /\ caller_pc' = [caller_pc EXCEPT ![c] = "idle"]
    /\ UNCHANGED <<tts_queue, worker_thread, worker_pc, worker_item,
                   speech_complete, caller_item, caller_wait, tts_speaks,
                   tts_shutdowns, tts_enqueued, tts_spoken>>
    /\ UNCHANGED ttsFrame

\* tts_engine.py:59-69 and 25-40: the worker gets or creates the engine
WorkerGetEngine(w) ==
    /\ worker_pc[w] = "init"
    /\ tts_engine' = TRUE
    /\ worker_pc' = [worker_pc EXCEPT ![w] = "get"]
    /\ UNCHANGED <<tts_queue, worker_thread, worker_item, speech_complete,
                   caller_pc, caller_item, caller_wait, tts_speaks,
                   tts_shutdowns, tts_enqueued, tts_spoken>>
    /\ UNCHANGED ttsFrame

\* tts_engine.py:69 and 100-103: pyttsx3.init() raises, the worker ends
WorkerInitFails(w) ==
    /\ worker_pc[w] = "init"
    /\ ~tts_engine
    /\ worker_pc' = [worker_pc EXCEPT ![w] = "dead"]
    /\ UNCHANGED <<tts_queue, worker_thread, worker_item, speech_complete,
                   tts_engine, caller_pc, caller_item, caller_wait,
                   tts_speaks, tts_shutdowns, tts_enqueued, tts_spoken>>
    /\ UNCHANGED ttsFrame

\* tts_engine.py:72-75: the worker takes the sentinel and ends
WorkerStops(w) ==
    /\ worker_pc[w] = "get"
    /\ tts_queue # <<>>
    /\ Head(tts_queue) = Sentinel
    /\ tts_queue' = Tail(tts_queue)
    /\ worker_pc' = [worker_pc EXCEPT ![w] = "dead"]
    /\ UNCHANGED <<worker_thread, worker_item, speech_complete, tts_engine,
                   caller_pc, caller_item, caller_wait, tts_speaks,
                   tts_shutdowns, tts_enqueued, tts_spoken>>
    /\ UNCHANGED ttsFrame

\* tts_engine.py:72-92: the worker takes a text, clears the event and hands
\* the text to engine.say
WorkerSay(w) ==
    /\ worker_pc[w] = "get"
    /\ tts_queue # <<>>
    /\ Head(tts_queue) # Sentinel
    /\ tts_queue' = Tail(tts_queue)
    /\ worker_item' = [worker_item EXCEPT ![w] = Head(tts_queue)]
    /\ speech_complete' = FALSE
    /\ tts_spoken' = Append(tts_spoken, Head(tts_queue))
    /\ worker_pc' = [worker_pc EXCEPT ![w] = "say"]
    /\ UNCHANGED <<worker_thread, tts_engine, caller_pc, caller_item,
                   caller_wait, tts_speaks, tts_shutdowns, tts_enqueued>>
    /\ UNCHANGED ttsFrame

\* tts_engine.py:93-98: runAndWait returns, the event is set
WorkerSaid(w) ==
    /\ worker_pc[w] = "say"
    /\ speech_complete' = TRUE
    /\ worker_item' = [worker_item EXCEPT ![w] = Sentinel]
    /\ worker_pc' = [worker_pc EXCEPT ![w] = "get"]
    /\ UNCHANGED <<tts_queue, worker_thread, tts_engine, caller_pc,
                   caller_item, caller_wait, tts_speaks, tts_shutdowns,
                   tts_enqueued, tts_spoken>>
    /\ UNCHANGED ttsFrame

\* tts_engine.py:92-93 and 100-103: say or runAndWait raises, the worker
\* ends with the event left clear
WorkerRaises(w) ==
    /\ worker_pc[w] = "say"
    /\ worker_item' = [worker_item EXCEPT ![w] = Sentinel]
    /\ worker_pc' = [worker_pc EXCEPT ![w] = "dead"]
    /\ UNCHANGED <<tts_queue, worker_thread, speech_complete, tts_engine,
                   caller_pc, caller_item, caller_wait, tts_speaks,
                   tts_shutdowns, tts_enqueued, tts_spoken>>
    /\ UNCHANGED ttsFrame

\* the speech engine of an assistant in automatic mode, before the first
\* subsystem is set up
InitTtsEngine ==
    /\ Init
    /\ mode = "auto"

NextTts ==
    \/ \E c \in Callers, wait \in BOOLEAN : SpeakBegin(c, wait)
    \/ \E c \in Callers : SpeakPut(c)
    \/ \E c \in Callers : WaitReleased(c)
    \/ \E c \in Callers : WaitTimedOut(c)
    \/ \E c \in Callers : ShutdownBegin(c)
    \/ \E c \in Callers : ShutdownJoin(c)
    \/ \E c \in Callers : ShutdownEngine(c)
    \/ \E w \in Workers : WorkerGetEngine(w)
    \/ \E w \in Workers : WorkerInitFails(w)
    \/ \E w \in Workers : WorkerStops(w)
    \/ \E w \in Workers : WorkerSay(w)
    \/ \E w \in Workers : WorkerSaid(w)
    \/ \E w \in Workers : WorkerRaises(w)

SpecTts == InitTtsEngine /\ [][NextTts]_vars

TtsTypeOK ==
    /\ worker_thread \in Workers \cup {NoWorker}
    /\ worker_pc \in [Workers -> {"unstarted", "init", "get", "say", "dead"}]
    /\ worker_item \in [Workers -> Texts \cup {Sentinel}]
    /\ caller_pc \in
           [Callers -> {"idle", "put", "wait", "join", "stop_engine"}]
    /\ tts_speaks \in 0..MaxSpeaks
    /\ tts_shutdowns \in 0..MaxShutdowns
    /\ Len(tts_queue) <= MaxSpeaks + MaxShutdowns

\* ------------------------------------------------------------------------
\* Properties of the local speech engine
\* ------------------------------------------------------------------------
LiveWorkers ==
    {w \in Workers : Alive(worker_pc, w)}

SpeakingWorkers ==
    {w \in Workers : worker_pc[w] = "say"}

\* C20: under every interleaving of speak and shutdown_tts calls from two
\* threads, at most one worker thread is alive, at most one text is being
\* spoken, and the texts handed to the engine are, in order, the first texts
\* put on the queue.
C20_OneWorkerInOrder ==
    /\ Cardinality(LiveWorkers) <= 1
    /\ Cardinality(SpeakingWorkers) <= 1
    /\ Len(tts_spoken) <= Len(tts_enqueued)
    /\ tts_spoken = SubSeq(tts_enqueued, 1, Len(tts_spoken))

\* C20 witness: two speak calls put their texts in the reverse of their
\* call order, a shutdown ended the first worker, and a restarted worker is
\* speaking the second text of the queue.
C20_Witness ==
    /\ tts_enqueued = <<2, 1>>
    /\ tts_spoken = <<2, 1>>
    /\ tts_shutdowns > 0
    /\ worker_thread > 1
    /\ worker_pc[worker_thread] = "say"
    /\ worker_pc[1] = "dead"

\* the text of caller c has been handed to the engine and no worker is
\* still speaking it
SpokenAndOver(c) ==
    /\ \E i \in 1..Len(tts_spoken) : tts_spoken[i] = caller_item[c]
    /\ \A w \in Workers :
        worker_pc[w] = "say" => worker_item[w] # caller_item[c]

\* C21: a caller of speak(text, wait=True) that is released by the
\* completion event, not by the timeout, is released only after its own text
\* was spoken, never by the completion of an earlier text, and the event is
\* set when it returns.
C21_ReleasedByOwnItem ==
    [][\A c \in Callers :
        (caller_pc[c] = "wait" /\ caller_pc'[c] = "idle" /\ speech_complete)
            => /\ SpokenAndOver(c)
               /\ speech_complete']_vars

\* C22: a worker that was speaking a text signals completion and goes on
\* taking items, whether speaking succeeded or raised.
C22_WorkerSurvivesFailure ==
    [][\A w \in Workers :
        (worker_pc[w] = "say" /\ worker_pc'[w] # "say")
            => /\ speech_complete'
               /\ worker_pc'[w] = "get"]_vars

\* ------------------------------------------------------------------------
\* The wake-word detector (offline/wake_word.py): operations
\* ------------------------------------------------------------------------
\* threading.Thread.is_alive of a listener
Listening(wpc, t) ==
    wpc[t] \in {"setup", "loop", "callback"}

\* the next thread object threading.Thread() creates
NewListener(wpc) ==
    CHOOSE t \in Listeners :
        /\ wpc[t] = "unstarted"
        /\ \A u \in Listeners : wpc[u] = "unstarted" => t <= u

\* wake_word.py:34-41 WakeWordDetector.start
WakeStart ==
    /\ ww_caller = "idle"
    /\ IF ww_running
       THEN /\ ww_events' = <<Ev("start", "running")>>
            /\ UNCHANGED <<ww_running, ww_thread, ww_pc>>
       ELSE /\ \E t \in Listeners : ww_pc[t] = "unstarted"
            /\ ww_running' = TRUE
            /\ ww_thread' = NewListener(ww_pc)
            /\ ww_pc' = [ww_pc EXCEPT ![NewListener(ww_pc)] = "setup"]
            /\ ww_events' = <<Ev("start", "spawn")>>
    /\ UNCHANGED <<ww_porcupine, ww_pa, ww_audio_stream, ww_caller,
                   ww_detections, ww_callbacks>>
    /\ UNCHANGED wakeFrame

\* wake_word.py:44-48 WakeWordDetector.stop up to the join
WakeStopBegin ==
    /\ ww_caller = "idle"
    /\ ww_running' = FALSE
    /\ ww_caller' = "join"
    /\ ww_events' = <<Ev("stop", "begin")>>
    /\ UNCHANGED <<ww_thread, ww_pc, ww_porcupine, ww_pa, ww_audio_stream,
                   ww_detections, ww_callbacks>>
    /\ UNCHANGED wakeFrame

\* wake_word.py:50-58 one `if self.x: self.x.release()`: a handle that was
\* never created is skipped, a live one is released, and releasing one that
\* was released before either raises or goes through again
Release(handle, name, again) ==
    CASE handle = "none" ->
            [state |-> "none", calls |-> <<>>, raised |-> FALSE]
      [] handle = "live" ->
            [state |-> "released", calls |-> <<Ev(name, "first")>>,
             raised |-> FALSE]
      [] OTHER ->
            [state |-> "released", calls |-> <<Ev(name, again)>>,
             raised |-> again = "raise"]

\* wake_word.py:47-58 WakeWordDetector.stop from the return of the join,
\* which comes when the listener has ended, when there is none, or after
\* the timeout of 2 seconds
WakeStopRelease ==
    /\ ww_caller = "join"
    /\ \E a1 \in {"again", "raise"}, a2 \in {"again", "raise"},
          a3 \in {"again", "raise"} :
        LET r1 == Release(ww_audio_stream, "close_stream", a1)
            r2 == Release(ww_porcupine, "delete", a2)
            r3 == Release(ww_pa, "terminate", a3)
        IN  /\ ww_audio_stream' = r1.state
            /\ ww_porcupine' = IF r1.raised THEN ww_porcupine ELSE r2.state
            /\ ww_pa' = IF r1.raised \/ r2.raised THEN ww_pa ELSE r3.state
            /\ ww_events' =
                   <<Ev("join",
                        IF ww_thread # NoThread /\ Listening(ww_pc, ww_thread)
                        THEN "timeout" ELSE "joined")>>
                   \o r1.calls
                   \o (IF r1.raised THEN <<>> ELSE r2.calls)
                   \o (IF r1.raised \/ r2.raised THEN <<>> ELSE r3.calls)
                   \o (IF r1.raised \/ r2.raised \/ r3.raised
                       THEN <<Ev("stop", "raise")>>
                       ELSE <<Ev("stop", "return")>>)
    /\ ww_caller' = "idle"
    /\ UNCHANGED <<ww_running, ww_thread, ww_pc, ww_detections,
                   ww_callbacks>>
    /\ UNCHANGED wakeFrame

\* wake_word.py:62-75: the engine, the audio subsystem and the stream are
\* created
ListenerSetup(t) ==
    /\ ww_pc[t] = "setup"
    /\ ww_porcupine' = "live"
    /\ ww_pa' = "live"
    /\ ww_audio_stream' = "live"
    /\ ww_pc' = [ww_pc EXCEPT ![t] = "loop"]
    /\ ww_events' = <<Ev("setup", "ok")>>
    /\ UNCHANGED <<ww_running, ww_thread, ww_caller, ww_detections,
                   ww_callbacks>>
    /\ UNCHANGED wakeFrame

\* wake_word.py:62-75 and 87-88: one of the three creations raises
ListenerSetupFails(t, at) ==
    /\ ww_pc[t] = "setup"
    /\ ww_porcupine' = IF at = "create" THEN ww_porcupine ELSE "live"
    /\ ww_pa' = IF at = "open" THEN "live" ELSE ww_pa
    /\ UNCHANGED ww_audio_stream
    /\ ww_running' = FALSE
    /\ ww_pc' = [ww_pc EXCEPT ![t] = "dead"]
    /\ ww_events' = <<Ev("setup", at)>>
    /\ UNCHANGED <<ww_thread, ww_caller, ww_detections, ww_callbacks>>
    /\ UNCHANGED wakeFrame

\* wake_word.py:77-81: a frame without the keyword
ListenerHears(t) ==
    /\ ww_pc[t] = "loop"
    /\ ww_running
    /\ ww_audio_stream = "live"
    /\ ww_porcupine = "live"
    /\ ww_events' = <<Ev("process", "nothing")>>
    /\ UNCHANGED <<ww_running, ww_thread, ww_pc, ww_porcupine, ww_pa,
                   ww_audio_stream, ww_caller, ww_detections, ww_callbacks>>
    /\ UNCHANGED wakeFrame

\* wake_word.py:77-85: a frame with the keyword, the callback is called
ListenerSpots(t) ==
    /\ ww_pc[t] = "loop"
    /\ ww_running
    /\ ww_audio_stream = "live"
    /\ ww_porcupine = "live"
    /\ ww_detections < MaxDetections
    /\ ww_detections' = ww_detections + 1
    /\ ww_callbacks' = ww_callbacks + 1
    /\ ww_pc' = [ww_pc EXCEPT ![t] = "callback"]
    /\ ww_events' = <<Ev("process", "spotted"), Ev("callback", "call")>>
    /\ UNCHANGED <<ww_running, ww_thread, ww_porcupine, ww_pa,
                   ww_audio_stream, ww_caller>>
    /\ UNCHANGED wakeFrame

\* wake_word.py:78-81 and 87-88: the read or the engine raises, as they do
\* on a released stream or engine
ListenerReadFails(t) ==
    /\ ww_pc[t] = "loop"
    /\ ww_running
    /\ ww_running' = FALSE
    /\ ww_pc' = [ww_pc EXCEPT ![t] = "dead"]
    /\ ww_events' = <<Ev("read", "raise")>>
    /\ UNCHANGED <<ww_thread, ww_porcupine, ww_pa, ww_audio_stream,
                   ww_caller, ww_detections, ww_callbacks>>
    /\ UNCHANGED wakeFrame

\* wake_word.py:77: the loop test fails, the thread ends
ListenerExits(t) ==
    /\ ww_pc[t] = "loop"
    /\ ~ww_running
    /\ ww_pc' = [ww_pc EXCEPT ![t] = "dead"]
    /\ ww_events' = <<Ev("loop", "exit")>>
    /\ UNCHANGED <<ww_running, ww_thread, ww_porcupine, ww_pa,
                   ww_audio_stream, ww_caller, ww_detections, ww_callbacks>>
    /\ UNCHANGED wakeFrame

\* wake_word.py:85: the callback returns
ListenerCallbackReturns(t) ==
    /\ ww_pc[t] = "callback"
    /\ ww_pc' = [ww_pc EXCEPT ![t] = "loop"]
    /\ ww_events' = <<Ev("callback", "return")>>
    /\ UNCHANGED <<ww_running, ww_thread, ww_porcupine, ww_pa,
                   ww_audio_stream, ww_caller, ww_detections, ww_callbacks>>
    /\ UNCHANGED wakeFrame

\* A callback whose exception ends the thread past the handler.
ListenerCallbackPropagates(t) ==
    /\ ww_pc[t] = "callback"
    /\ ww_pc' = [ww_pc EXCEPT ![t] = "dead"]
    /\ ww_events' = <<Ev("callback", "raise")>>
    /\ UNCHANGED <<ww_running, ww_thread, ww_porcupine, ww_pa,
                   ww_audio_stream, ww_caller, ww_detections, ww_callbacks>>
    /\ UNCHANGED wakeFrame

\* wake_word.py:85 and 87-88: the callback raises
ListenerCallbackRaises(t) ==
    /\ ww_pc[t] = "callback"
    /\ ww_running' = FALSE
    /\ ww_pc' = [ww_pc EXCEPT ![t] = "dead"]
    /\ ww_events' = <<Ev("callback", "raise")>>
    /\ UNCHANGED <<ww_thread, ww_porcupine, ww_pa, ww_audio_stream,
                   ww_caller, ww_detections, ww_callbacks>>
    /\ UNCHANGED wakeFrame

\* the detector of an assistant in automatic mode, before the first
\* subsystem is set up
InitWake ==
    /\ Init
    /\ mode = "auto"

NextWake ==
    \/ WakeStart
    \/ WakeStopBegin
    \/ WakeStopRelease
    \/ \E t \in Listeners : ListenerSetup(t)
    \/ \E t \in Listeners, at \in {"create", "pyaudio", "open"} :
            ListenerSetupFails(t, at)
    \/ \E t \in Listeners : ListenerHears(t)
    \/ \E t \in Listeners : ListenerSpots(t)
    \/ \E t \in Listeners : ListenerReadFails(t)
    \/ \E t \in Listeners : ListenerExits(t)
    \/ \E t \in Listeners : ListenerCallbackReturns(t)
    \/ \E t \in Listeners : ListenerCallbackRaises(t)

SpecWake == InitWake /\ [][NextWake]_vars

WakeTypeOK ==
    /\ ww_running \in BOOLEAN
    /\ ww_thread \in Listeners \cup {NoThread}
    /\ ww_pc \in [Listeners ->
                    {"unstarted", "setup", "loop", "callback", "dead"}]
    /\ {ww_porcupine, ww_pa, ww_audio_stream}
            \subseteq {"none", "live", "released"}
    /\ ww_caller \in {"idle", "join"}
    /\ ww_detections \in 0..MaxDetections
    /\ ww_callbacks \in 0..MaxDetections

\* ------------------------------------------------------------------------
\* Properties of the wake-word detector
\* ------------------------------------------------------------------------
ListenerLoops ==
    {t \in Listeners : Listening(ww_pc, t)}

\* C23: a start while running spawns nothing, at most one listener loop is
\* running at any time, every detection has called the callback once, and
\* a listener whose callback returned is back in its loop.
C23_OneListenerLoop ==
    /\ [](Cardinality(ListenerLoops) <= 1)
    /\ [](ww_callbacks = ww_detections)
    /\ [][HasEv(ww_events', "start", "running")
            => UNCHANGED <<ww_thread, ww_pc>>]_vars
    /\ [][\A t \in Listeners :
            (ww_pc[t] = "callback" /\ HasEv(ww_events', "callback", "return"))
                => ww_pc'[t] = "loop"]_vars

\* C24: no stop releases the audio stream, the engine handle or the audio
\* subsystem a second time, and no stop raises.
C24_StopSafe ==
    \A i \in 1..Len(ww_events) :
        /\ ww_events[i].op \in {"close_stream", "delete", "terminate"}
            => ww_events[i].res = "first"
        /\ ww_events[i] # Ev("stop", "raise")

\* ------------------------------------------------------------------------
\* The speech recogniser (offline/recognizer.py): operations
\* ------------------------------------------------------------------------
\* the languages reload_model is called with
ReloadLanguages == ModelLanguages \cup {"fr-fr"}

\* what loading does: both constructors succeed, vosk.Model raises, or
\* vosk.KaldiRecognizer raises
LoadOutcomes == {"ok", "model_raises", "rec_raises"}

\* the fields reload_model works on
RecFields ==
    [language |-> rec_language, model_path |-> rec_model_path,
     model |-> rec_model, rec |-> rec_rec]

\* recognizer.py:100-111: the checks before the switch
ReloadSwitches(st, new_lang, exists) ==
    /\ new_lang # st.language
    /\ new_lang \in DOMAIN MODELS
    /\ exists

\* recognizer.py:97-121 Recognizer.reload_model
Reload(st, new_lang, exists, load) ==
    IF ReloadSwitches(st, new_lang, exists)
    THEN [language |-> new_lang,
          model_path |-> MODELS[new_lang],
          model |-> IF load = "model_raises"
                    THEN st.model ELSE MODELS[new_lang],
          rec |-> IF load = "ok" THEN MODELS[new_lang] ELSE st.rec]
    ELSE st

ReloadCalls(st, new_lang, exists, load) ==
    <<Ev("reload_model", new_lang)>>
        \o (IF ReloadSwitches(st, new_lang, exists)
            THEN <<Ev("load", load)>> ELSE <<>>)

\* recognizer.py:97-121 Recognizer.reload_model, called by itself
RecReloadModel(new_lang) ==
    /\ rec_pc = "idle"
    /\ \E exists \in BOOLEAN, load \in LoadOutcomes :
        LET st == Reload(RecFields, new_lang, exists, load)
        IN  /\ rec_language' = st.language
            /\ rec_model_path' = st.model_path
            /\ rec_model' = st.model
            /\ rec_rec' = st.rec
            /\ rec_events' = ReloadCalls(RecFields, new_lang, exists, load)
    /\ rec_result' = Returned(None)
    /\ UNCHANGED <<rec_listen_timeout, rec_stream, rec_pc, rec_timeout,
                   rec_elapsed>>
    /\ UNCHANGED recFrame

\* recognizer.py:87-95 Recognizer.stop_stream
RecStopStream ==
    /\ rec_pc = "idle"
    /\ rec_stream' = FALSE
    /\ rec_result' = Returned(None)
    /\ rec_events' = <<Ev("stop_stream", "return")>>
    /\ UNCHANGED <<rec_listen_timeout, rec_language, rec_model_path,
                   rec_model, rec_rec, rec_pc, rec_timeout, rec_elapsed>>
    /\ UNCHANGED recFrame

\* the timeout_seconds argument of listen_once, in poll intervals
ListenArgs == {NoValue, 1}

\* recognizer.py:123-133 listen_once up to the loop: the configured timeout
\* is looked up outside the try, the stream is started inside it
ListenBegin(arg) ==
    /\ rec_pc = "idle"
    /\ IF arg = NoValue /\ rec_listen_timeout = NoValue
       THEN /\ rec_result' = Raised("KeyError")
            /\ rec_events' = <<Ev("listen_once", "KeyError")>>
            /\ UNCHANGED <<rec_stream, rec_pc, rec_timeout, rec_elapsed>>
       ELSE \E open \in {"ok", "raise"} :
            IF ~rec_stream /\ open = "raise"
            THEN /\ rec_result' = Returned(<<>>)
                 /\ rec_events' =
                        <<Ev("listen_once", "error"), Ev("open", "raise")>>
                 /\ UNCHANGED <<rec_stream, rec_pc, rec_timeout, rec_elapsed>>
            ELSE /\ rec_stream' = TRUE
                 /\ rec_pc' = "poll"
                 /\ rec_timeout' =
                        IF arg = NoValue THEN rec_listen_timeout ELSE arg
                 /\ rec_elapsed' = 0
                 /\ rec_events' = <<Ev("listen_once", "begin")>>
                 /\ UNCHANGED rec_result
    /\ UNCHANGED <<rec_listen_timeout, rec_language, rec_model_path,
                   rec_model, rec_rec>>
    /\ UNCHANGED recFrame

\* recognizer.py:152-176 listen_once from the end of the loop: an empty
\* text is returned as it is; otherwise the language is guessed, the model
\* reloaded if the language changed, and the text returned in lower case; an
\* exception returns the empty string
ListenFinish(text) ==
    \E guess \in {"hi", "en", "raise"}, exists \in BOOLEAN,
       load \in LoadOutcomes :
        LET new_lang == IF guess = "hi" THEN "hi-in" ELSE "en-in"
            reloads == text # <<>> /\ guess # "raise"
                            /\ new_lang # rec_language
            st == IF reloads
                  THEN Reload(RecFields, new_lang, exists, load)
                  ELSE RecFields
        IN  /\ rec_language' = st.language
            /\ rec_model_path' = st.model_path
            /\ rec_model' = st.model
            /\ rec_rec' = st.rec
            /\ rec_result' =
                   IF text = <<>> \/ guess = "raise"
                   THEN Returned(<<>>) ELSE Returned(Lower(text))
            /\ rec_events' =
                   <<Ev("listen_once", "end")>>
                   \o (IF text = <<>> THEN <<>> ELSE <<Ev("detect", guess)>>)
                   \o (IF reloads
                       THEN ReloadCalls(RecFields, new_lang, exists, load)
                       ELSE <<>>)
            /\ rec_pc' = "idle"

\* recognizer.py:135-150 one turn of the loop of listen_once: the queue
\* gives nothing for a poll interval, or a chunk that does not finalise a
\* result, or a chunk that does, or the recogniser raises (174-176)
ListenPoll(chunk) ==
    /\ rec_pc = "poll"
    /\ CASE chunk = "raise" ->
              /\ rec_result' = Returned(<<>>)
              /\ rec_events' = <<Ev("listen_once", "error")>>
              /\ rec_pc' = "idle"
              /\ UNCHANGED <<rec_language, rec_model_path, rec_model,
                             rec_rec, rec_elapsed>>
         [] chunk = "final" ->
              /\ \E text \in Transcripts : ListenFinish(text)
              /\ UNCHANGED rec_elapsed
         [] OTHER ->
              \E d \in {IF chunk = "empty" THEN 1 ELSE 0, 1} :
                /\ rec_elapsed' = rec_elapsed + d
                /\ IF rec_elapsed + d > rec_timeout
                   THEN \E text \in Transcripts : ListenFinish(text)
                   ELSE /\ rec_events' = <<Ev("poll", chunk)>>
                        /\ UNCHANGED <<rec_language, rec_model_path,
                                       rec_model, rec_rec, rec_pc,
                                       rec_result>>
    /\ UNCHANGED <<rec_listen_timeout, rec_stream, rec_timeout>>
    /\ UNCHANGED recFrame

\* the recogniser of an assistant in automatic mode, with or without a
\* configured listen_timeout
InitRecognizer ==
    /\ RasaUnused
    /\ ConfigUnused
    /\ InitBase
    /\ mode = "auto"

NextRecognizer ==
    \/ \E l \in ReloadLanguages : RecReloadModel(l)
    \/ RecStopStream
    \/ \E a \in ListenArgs : ListenBegin(a)
    \/ \E c \in {"empty", "partial", "final", "raise"} : ListenPoll(c)

SpecRecognizer == InitRecognizer /\ [][NextRecognizer]_vars

RecognizerTypeOK ==
    /\ rec_language \in ModelLanguages
    /\ rec_model_path = MODELS[rec_language]
    /\ rec_pc \in {"idle", "poll"}
    /\ rec_elapsed \in 0..(ListenCap + 1)
    /\ rec_result.kind \in {"return", "raise"}

\* ------------------------------------------------------------------------
\* Properties of the speech recogniser
\* ------------------------------------------------------------------------
\* C25: a listen_once call that has ended has returned a string, not an
\* absent value and not an exception, and no later than one poll interval
\* after its timeout.
C25_ListenReturnsString ==
    (Has(rec_events, "listen_once") /\ rec_pc = "idle")
        => /\ rec_result.kind = "return"
           /\ rec_result.value # None
           /\ rec_elapsed <= rec_timeout + 1

\* C26: reload_model never raises and, unless the new model was loaded,
\* leaves language, model path and model as they were; the recorded
\* language is always the language of the loaded model.
C26_ReloadKeepsOrLoads ==
    /\ [](rec_model = MODELS[rec_language])
    /\ [][Has(rec_events', "reload_model")
            => /\ rec_result'.kind = "return"
               /\ HasEv(rec_events', "load", "ok")
                    \/ UNCHANGED <<rec_language, rec_model_path,
                                   rec_model>>]_vars

\* ------------------------------------------------------------------------
\* The dialogue handler (offline/rasa_handler.py): get_response
\* ------------------------------------------------------------------------
\* rasa_handler.py:238
DidntCatch ==
    <<"I didn't catch that. Could you repeat?">>

\* rasa_handler.py:276 and 314
NotSure ==
    <<"I'm not sure about that. Could you rephrase?">>

\* rasa_handler.py:133-135: the reply for an action without a method
DontKnowHow(action_type) ==
    <<"I understand you want to ", action_type,
      ", but I don't know how to do that yet.">>

\* rasa_handler.py:104-135 execute_custom_action, for the joke action
\* (163-172) and for an action the handler has no method for
ExecuteCustomAction(action_name, choice) ==
    IF action_name = <<"action_tell_joke">>
    THEN <<Jokes[choice]>>
    ELSE DontKnowHow("fly")

\* rasa_handler.py:68-102: the mapping loaded from the model bundle
IntentToAction(intent) ==
    IF intent = <<"tell_joke">> THEN <<"action_tell_joke">> ELSE None

FragmentsBoth(item, choice) ==
    IF item.kind = "dict"
    THEN (IF item.text # Absent THEN <<item.text>> ELSE <<>>)
         \o (IF ~item.custom.present THEN <<>>
             ELSE IF item.custom.text # Absent THEN <<item.custom.text>>
             ELSE IF item.custom.action # Absent
             THEN <<ExecuteCustomAction(item.custom.action, choice)>>
             ELSE <<>>)
    ELSE IF item.kind = "str" THEN <<item.text>>
    ELSE <<>>

\* rasa_handler.py:283-304: what one response item appends to
\* response_texts
Fragments(item, choice) ==
    IF item.kind = "dict"
    THEN IF item.text # Absent THEN <<item.text>>
         ELSE IF ~item.custom.present THEN <<>>
         ELSE IF item.custom.text # Absent THEN <<item.custom.text>>
         ELSE IF item.custom.action # Absent
         THEN <<ExecuteCustomAction(item.custom.action, choice)>>
         ELSE <<>>
    ELSE IF item.kind = "str" THEN <<item.text>>
    ELSE <<>>

\* rasa_handler.py:280-304: response_texts after the loop over the first n
\* items
RECURSIVE ResponseTexts(_, _, _)
ResponseTexts(responses, n, choice) ==
    IF n = 0 THEN <<>>
    ELSE ResponseTexts(responses, n - 1, choice)
            \o Fragments(responses[n], choice)

\* str.join
RECURSIVE Join(_, _)
Join(sep, parts) ==
    IF parts = <<>> THEN <<>>
    ELSE IF Len(parts) = 1 THEN parts[1]
    ELSE parts[1] \o sep \o Join(sep, Tail(parts))

\* rasa_handler.py:227-320 RasaHandler.get_response, the agent answering
\* without an exception
GetResponse(text, responses, intent, choice) ==
    IF text = <<>> THEN DidntCatch
    ELSE IF responses = <<>>
    THEN IF intent # None /\ IntentToAction(intent) # None
         THEN ExecuteCustomAction(IntentToAction(intent), choice)
         ELSE NotSure
    ELSE LET response_texts == ResponseTexts(responses, Len(responses), choice)
         IN  IF response_texts # <<>>
             THEN Join(<<" ">>, response_texts)
             ELSE NotSure

\* rasa_handler.py:227-320 one call of get_response
RasaGetResponse ==
    /\ rasa_pc = "ready"
    /\ rasa_result' =
           GetResponse(rasa_text, rasa_responses, rasa_intent, rasa_choice)
    /\ rasa_pc' = "done"
    /\ UNCHANGED <<rasa_text, rasa_responses, rasa_intent, rasa_choice>>
    /\ UNCHANGED rasaFrame

\* the handler of an assistant in automatic mode, before the first
\* subsystem is set up
InitRasa ==
    /\ RecognizerConfigured
    /\ ConfigUnused
    /\ InitBase
    /\ mode = "auto"

NextRasa ==
    RasaGetResponse

SpecRasa == InitRasa /\ [][NextRasa]_vars

\* ------------------------------------------------------------------------
\* Properties of the dialogue handler
\* ------------------------------------------------------------------------
\* the reply for the fragments fs: their single-space join, or the generic
\* reply when there are none
ReplyOf(fs) ==
    CASE Len(fs) = 0 -> NotSure
      [] Len(fs) = 1 -> fs[1]
      [] Len(fs) = 2 -> fs[1] \o <<" ">> \o fs[2]
      [] Len(fs) = 3 -> fs[1] \o <<" ">> \o fs[2] \o <<" ">> \o fs[3]
      [] OTHER -> fs[1] \o <<" ">> \o fs[2] \o <<" ">> \o fs[3]
                      \o <<" ">> \o fs[4]

\* the action result of item i, for the actions of the response items
ActionResult(i) ==
    IF i.custom.action = <<"action_tell_joke">>
    THEN <<Jokes[rasa_choice]>>
    ELSE <<"I understand you want to ", "fly",
           ", but I don't know how to do that yet.">>

\* what the custom payload of item i gives: its text, or else the result of
\* its action
CustomSays(i) ==
    IF i.kind = "dict" /\ i.custom.present
    THEN IF i.custom.text # Absent THEN <<i.custom.text>>
         ELSE IF i.custom.action # Absent THEN <<ActionResult(i)>>
         ELSE <<>>
    ELSE <<>>

\* the text of a dict item or a plain string item
TextSays(i) ==
    IF i.kind \in {"dict", "str"} /\ i.text # Absent THEN <<i.text>> ELSE <<>>

\* every item gives its text and what its custom payload gives
SaysAll(rs) ==
    [i \in 1..Len(rs) |-> TextSays(rs[i]) \o CustomSays(rs[i])]

\* an item with a text gives only that text
SaysFirst(rs) ==
    [i \in 1..Len(rs) |->
        IF TextSays(rs[i]) # <<>> THEN TextSays(rs[i]) ELSE CustomSays(rs[i])]

Flatten(ss) ==
    IF Len(ss) = 0 THEN <<>>
    ELSE IF Len(ss) = 1 THEN ss[1]
    ELSE IF Len(ss) = 2 THEN ss[1] \o ss[2]
    ELSE ss[1] \o ss[2] \o ss[3]

Answered ==
    rasa_pc = "done" /\ rasa_text # <<>> /\ rasa_responses # <<>>

JokeAlone ==
    (Answered /\ rasa_responses =
        <<[kind |-> "dict", text |-> Absent,
           custom |-> [present |-> TRUE, text |-> Absent,
                       action |-> <<"action_tell_joke">>]]>>)
        => \E j \in 1..5 : rasa_result = <<Jokes[j]>>

\* C27 as stated: the reply to a non-empty response list is the single-space
\* join, in item order, of every dict item's text, every plain string, and
\* for every item with a custom payload its custom text or else the result
\* of its action; the generic reply when nothing is collected; one of the
\* five jokes for a lone joke action.
C27_JoinOfAllFragments ==
    /\ Answered => rasa_result = ReplyOf(Flatten(SaysAll(rasa_responses)))
    /\ JokeAlone

\* C27: as above, but an item with a text gives only that text: its custom
\* payload is consulted only when it has no text.
C27_JoinOfFirstFragments ==
    /\ Answered => rasa_result = ReplyOf(Flatten(SaysFirst(rasa_responses)))
    /\ JokeAlone

\* C27 witness: a text item followed by a joke action has been answered
\* with the text, a space and a joke.
C27_Witness ==
    /\ Answered
    /\ Len(rasa_responses) = 2
    /\ rasa_responses[1].text = <<"a">>
    /\ rasa_responses[2].text = Absent
    /\ rasa_responses[2].custom.action = <<"action_tell_joke">>
    /\ rasa_result = <<"a", " ", Jokes[rasa_choice]>>

\* ------------------------------------------------------------------------
\* The conversation store (database/db_manager.py): operations
\* ------------------------------------------------------------------------
\* db_manager.py:69 json.dumps(metadata or {})
MetaJson(metadata) ==
    IF metadata = NoMeta THEN "{}" ELSE "{\"test\": true}"

\* db_manager.py:49 INTEGER PRIMARY KEY of a rowid table: the largest rowid
\* in the table, plus one
NextIdRowid(rows, seq) ==
    IF rows = {} THEN 1
    ELSE (CHOOSE m \in {r.id : r \in rows} : \A r \in rows : r.id <= m) + 1

\* db_manager.py:49 INTEGER PRIMARY KEY AUTOINCREMENT: the largest id ever
\* issued, plus one
NextId(rows, seq) ==
    seq + 1

\* db_manager.py:71-77 the row INSERT stores
NewRow(id, conv) ==
    [id |-> id,
     mode |-> conv.mode,
     language |-> conv.language,
     user_text |-> conv.user_text,
     response_text |-> conv.response_text,
     metadata |-> MetaJson(conv.metadata)]

\* db_manager.py:91-94 SELECT ... WHERE id = ?
SelectById(rows, conv_id) ==
    {r \in rows : r.id = conv_id}

DeleteFromAll(rows, conv_id) ==
    {}

\* db_manager.py:99 DELETE FROM conversations WHERE id = ?
DeleteFrom(rows, conv_id) ==
    {r \in rows : r.id # conv_id}

\* db_manager.py:84 ORDER BY id DESC: the rows by descending id
RECURSIVE OrderByIdDesc(_)
OrderByIdDesc(rows) ==
    IF rows = {} THEN <<>>
    ELSE LET top == CHOOSE r \in rows : \A q \in rows : q.id <= r.id
         IN  <<top>> \o OrderByIdDesc(rows \ {top})

\* db_manager.py:84 LIMIT ?: the first limit rows, all of them when the
\* limit is negative
LimitTo(ordered, limit) ==
    IF limit < 0 \/ limit >= Len(ordered) THEN ordered
    ELSE SubSeq(ordered, 1, limit)

\* db_manager.py:18-42 DBManager(): no MySQL configured, or the connection
\* fails: the SQLite file is opened and the schema ensured
DbOpenSqlite ==
    /\ db_pc \in {"new", "closed", "failed"}
    /\ db_pc' = "open"
    /\ UNCHANGED <<db_rows, db_seq, db_result, db_inserted, db_deleted>>
    /\ UNCHANGED dbFrame

\* db_manager.py:28-42 DBManager() with MySQL configured and reachable:
\* CREATE TABLE with AUTOINCREMENT is not MySQL, _ensure_schema raises
DbOpenMysql ==
    /\ db_pc \in {"new", "closed", "failed"}
    /\ db_pc' = "failed"
    /\ UNCHANGED <<db_rows, db_seq, db_result, db_inserted, db_deleted>>
    /\ UNCHANGED dbFrame

\* db_manager.py:61-79 insert_conversation
DbInsert(conv) ==
    /\ db_pc = "open"
    /\ db_seq < MaxInserts
    /\ LET id == NextId(db_rows, db_seq)
       IN  /\ db_rows' = db_rows \cup {NewRow(id, conv)}
           /\ db_seq' = id
           /\ db_result' =
                  [op |-> "insert", arg |-> 0, id |-> id, rows |-> <<>>]
           /\ db_inserted' = Append(db_inserted, [id |-> id, conv |-> conv])
    /\ UNCHANGED <<db_pc, db_deleted>>
    /\ UNCHANGED dbFrame

\* db_manager.py:81-87 list_conversations
DbList(limit) ==
    /\ db_pc = "open"
    /\ db_result' =
           [op |-> "list", arg |-> limit, id |-> 0,
            rows |-> LimitTo(OrderByIdDesc(db_rows), limit)]
    /\ UNCHANGED <<db_pc, db_rows, db_seq, db_inserted, db_deleted>>
    /\ UNCHANGED dbFrame

\* db_manager.py:89-95 get_conversation: fetchone gives the row or None
DbGet(conv_id) ==
    /\ db_pc = "open"
    /\ db_result' =
           [op |-> "get", arg |-> conv_id, id |-> 0,
            rows |-> OrderByIdDesc(SelectById(db_rows, conv_id))]
    /\ UNCHANGED <<db_pc, db_rows, db_seq, db_inserted, db_deleted>>
    /\ UNCHANGED dbFrame

\* db_manager.py:97-100 delete_conversation
DbDelete(conv_id) ==
    /\ db_pc = "open"
    /\ db_rows' = DeleteFrom(db_rows, conv_id)
    /\ db_result' =
           [op |-> "delete", arg |-> conv_id, id |-> 0, rows |-> <<>>]
    /\ db_deleted' = db_deleted \cup {r.id : r \in SelectById(db_rows, conv_id)}
    /\ UNCHANGED <<db_pc, db_seq, db_inserted>>
    /\ UNCHANGED dbFrame

\* db_manager.py:102-106 close
DbClose ==
    /\ db_pc = "open"
    /\ db_pc' = "closed"
    /\ UNCHANGED <<db_rows, db_seq, db_result, db_inserted, db_deleted>>
    /\ UNCHANGED dbFrame

\* the store of an assistant in automatic mode, before the first subsystem
\* is set up
InitStore ==
    /\ Init
    /\ mode = "auto"

NextStore ==
    \/ DbOpenSqlite
    \/ DbOpenMysql
    \/ \E conv \in Conversations : DbInsert(conv)
    \/ \E limit \in Limits : DbList(limit)
    \/ \E conv_id \in ConvIds : DbGet(conv_id)
    \/ \E conv_id \in ConvIds : DbDelete(conv_id)
    \/ DbClose

SpecStore == InitStore /\ [][NextStore]_vars

DbTypeOK ==
    /\ db_pc \in {"new", "open", "closed", "failed"}
    /\ db_seq \in 0..MaxInserts
    /\ \A r \in db_rows : r.id \in 1..db_seq
    /\ \A r, q \in db_rows : r.id = q.id => r = q
    /\ db_result.op \in {"none", "insert", "list", "get", "delete"}
    /\ db_deleted \subseteq ConvIds

\* ------------------------------------------------------------------------
\* Properties of the conversation store
\* ------------------------------------------------------------------------
\* row r holds what conversation conv was inserted with
SameTexts(r, conv) ==
    /\ r.user_text = conv.user_text
    /\ r.response_text = conv.response_text
    /\ r.mode = conv.mode

\* the last operation was op
DbDid(op) ==
    db_result.op = op

\* C28, insert and get: an insert returns a positive integer id; a get of an
\* inserted id whose record was not deleted returns one record with the
\* inserted user text, response text and mode; a get of an id whose record
\* was deleted returns nothing.
C28_GetAfterInsert ==
    /\ DbDid("insert") => db_result.id \in Nat \ {0}
    /\ DbDid("get") =>
          \A k \in 1..Len(db_inserted) :
              db_inserted[k].id = db_result.arg =>
                  IF db_result.arg \in db_deleted
                  THEN db_result.rows = <<>>
                  ELSE /\ Len(db_result.rows) = 1
                       /\ db_result.rows[1].id = db_result.arg
                       /\ SameTexts(db_result.rows[1], db_inserted[k].conv)

\* C28, delete: a delete removes the record of its id and leaves every
\* other record as it was.
C28_DeleteOnlyThatId ==
    [][(db_result'.op = "delete")
          => db_rows' = {r \in db_rows : r.id # db_result'.arg}]_vars

\* C28: inserting a conversation returns a positive integer id; get of that
\* id returns a record with the same user text, response text and mode until
\* it is deleted; after delete of that id get returns nothing, and the
\* other records are unaffected by the delete.
C28_RoundTrip ==
    /\ []C28_GetAfterInsert
    /\ C28_DeleteOnlyThatId

\* C28 witness: with two records inserted and the first deleted, a get of
\* the first returned nothing while the second is still stored.
C28_Witness ==
    /\ DbDid("get")
    /\ db_result.arg = 1
    /\ 1 \in db_deleted
    /\ db_result.rows = <<>>
    /\ Len(db_inserted) = 2
    /\ \E r \in db_rows : r.id = 2 /\ SameTexts(r, db_inserted[2].conv)

\* the ids issued grow with the order of the inserts
IdsIncrease ==
    \A j, k \in 1..Len(db_inserted) :
        j < k => db_inserted[j].id < db_inserted[k].id

\* the listed rows are n stored records with the largest ids, by descending
\* id
LargestDescending(n) ==
    LET rows == db_result.rows
    IN  /\ Len(rows) = n
        /\ \A k \in 1..Len(rows) : rows[k] \in db_rows
        /\ \A j, k \in 1..Len(rows) : j < k => rows[j].id > rows[k].id
        /\ \A r \in db_rows :
              (\A k \in 1..Len(rows) : rows[k] # r)
                  => \A k \in 1..Len(rows) : r.id < rows[k].id

Smaller(a, b) ==
    IF a < b THEN a ELSE b

\* C29 as stated: ids are strictly increasing in insertion order, whatever
\* the inserts and deletes, and a list with any limit returns exactly the
\* min(limit, number of stored records) records with the largest ids, by
\* descending id.
C29_ListAnyLimit ==
    /\ IdsIncrease
    /\ DbDid("list") =>
          LargestDescending(Smaller(db_result.arg, Cardinality(db_rows)))

\* C29: ids are strictly increasing in insertion order, whatever the
\* inserts and deletes; a list with a limit of zero or more returns exactly
\* the min(limit, number of stored records) records with the largest ids,
\* by descending id, and a list with a negative limit returns every stored
\* record, by descending id.
C29_ListNaturalLimit ==
    /\ IdsIncrease
    /\ DbDid("list") =>
          IF db_result.arg >= 0
          THEN LargestDescending(Smaller(db_result.arg, Cardinality(db_rows)))
          ELSE LargestDescending(Cardinality(db_rows))

\* C29 witness: after three inserts and a delete of the second record, a
\* list with limit 1 of the two records left returned the one with the
\* largest id.
C29_Witness ==
    /\ DbDid("list")
    /\ db_result.arg = 1
    /\ Len(db_inserted) = 3
    /\ Cardinality(db_rows) = 2
    /\ 2 \in db_deleted
    /\ Len(db_result.rows) = 1
    /\ db_result.rows[1].id = 3

\* ------------------------------------------------------------------------
\* The configuration loader (utils/config.py): operations
\* ------------------------------------------------------------------------
\* the position of the first "}" of s at or after position i, 0 when there
\* is none
RECURSIVE FirstClose(_, _)
FirstClose(s, i) ==
    IF i > Len(s) THEN 0
    ELSE IF s[i] = "}" THEN i
    ELSE FirstClose(s, i + 1)

\* config.py:28 the pattern \$\{([^}]+)\} matched at position i of s: the
\* position of its closing brace, 0 when it does not match there
MatchAt(s, i) ==
    IF i + 1 <= Len(s) /\ s[i] = "$" /\ s[i + 1] = "{"
    THEN LET close == FirstClose(s, i + 2)
         IN  IF close > i + 2 THEN close ELSE 0
    ELSE 0

ReplOrEmpty(env, var, whole) ==
    IF var \in DOMAIN env THEN env[var] ELSE <<>>

\* config.py:24-27 repl: the value of the variable, the match itself when
\* os.getenv gives None
Repl(env, var, whole) ==
    IF var \in DOMAIN env THEN env[var] ELSE whole

\* config.py:28 re.sub from position i on: matches are looked for from left
\* to right, the search going on after each match
RECURSIVE ReSub(_, _, _)
ReSub(s, i, env) ==
    IF i > Len(s) THEN <<>>
    ELSE LET close == MatchAt(s, i)
         IN  IF close = 0
             THEN <<s[i]>> \o ReSub(s, i + 1, env)
             ELSE Repl(env, SubSeq(s, i + 2, close - 1), SubSeq(s, i, close))
                      \o ReSub(s, close + 1, env)

\* config.py:21-28 _substitute_env_variables
SubstituteEnvVariables(value, env) ==
    IF value.type # "str" THEN value
    ELSE Str(ReSub(value.s, 1, env))

\* config.py:31-36 _process_config
RECURSIVE ProcessConfig(_, _)
ProcessConfig(obj, env) ==
    IF obj.type = "dict"
    THEN Dict(obj.keys,
              [k \in 1..Len(obj.items) |-> ProcessConfig(obj.items[k], env)])
    ELSE IF obj.type = "list"
    THEN List([k \in 1..Len(obj.items) |-> ProcessConfig(obj.items[k], env)])
    ELSE SubstituteEnvVariables(obj, env)

\* config.py:39-45 load_config
LoadConfig ==
    /\ cfg_pc = "ready"
    /\ cfg_result' =
           IF cfg_file = NoFile THEN FileNotFoundError
           ELSE ProcessConfig(cfg_file, cfg_env)
    /\ cfg_pc' = "done"
    /\ UNCHANGED <<cfg_file, cfg_env>>
    /\ UNCHANGED cfgFrame

\* the loader of an assistant in automatic mode, before the first subsystem
\* is set up
InitConfig ==
    /\ RasaUnused
    /\ RecognizerConfigured
    /\ InitBase
    /\ mode = "auto"

NextConfig ==
    LoadConfig

SpecConfig == InitConfig /\ [][NextConfig]_vars

\* ------------------------------------------------------------------------
\* Properties of the configuration loader
\* ------------------------------------------------------------------------
\* a placeholder starts at position p of s and ends at the result: "${", a
\* name, "}"; with plain, the name is free of "$" and "{". 0 when none
\* starts there
PlaceholderEnd(s, p, plain) ==
    IF p + 3 <= Len(s) /\ SubSeq(s, p, p + 1) = <<"$", "{">>
    THEN LET ends == {j \in (p + 3)..Len(s) :
                         /\ s[j] = "}"
                         /\ \A k \in (p + 2)..(j - 1) :
                               /\ s[k] # "}"
                               /\ plain => s[k] \notin {"$", "{"}}
         IN  IF ends = {} THEN 0 ELSE CHOOSE j \in ends : TRUE
    ELSE 0

\* the first position from i on where a placeholder starts, 0 when there
\* is none
FirstPlaceholder(s, i, plain) ==
    LET starts == {p \in i..Len(s) : PlaceholderEnd(s, p, plain) # 0}
    IN  IF starts = {} THEN 0
        ELSE CHOOSE p \in starts : \A q \in starts : p <= q

\* s from position i on, every placeholder replaced by the value of its
\* variable when it is set, everything else as it is
RECURSIVE Replaced(_, _, _)
Replaced(s, i, plain) ==
    LET p == FirstPlaceholder(s, i, plain)
    IN  IF p = 0 THEN SubSeq(s, i, Len(s))
        ELSE LET end == PlaceholderEnd(s, p, plain)
                 name == SubSeq(s, p + 2, end - 1)
             IN  SubSeq(s, i, p - 1)
                     \o (IF name \in DOMAIN cfg_env THEN cfg_env[name]
                         ELSE SubSeq(s, p, end))
                     \o Replaced(s, end + 1, plain)

\* value v with the placeholders of its strings replaced at every depth,
\* its other leaves and its keys as they are
RECURSIVE ReplacedIn(_, _)
ReplacedIn(v, plain) ==
    CASE v.type = "str" -> [v EXCEPT !.s = Replaced(v.s, 1, plain)]
      [] v.type \in {"list", "dict"} ->
            [v EXCEPT !.items =
                [k \in 1..Len(v.items) |-> ReplacedIn(v.items[k], plain)]]
      [] OTHER -> v

Loaded ==
    cfg_pc = "done" /\ cfg_file # NoFile

\* C30 as stated: loading replaces every ${NAME} placeholder, NAME a
\* variable name, inside every string value at every depth of mappings and
\* sequences by the value of NAME when it is set and leaves it verbatim
\* when NAME is unset; other leaves and the keys are unchanged.
C30_EveryPlaceholder ==
    Loaded => cfg_result = ReplacedIn(cfg_file, TRUE)

\* C30: as above, NAME being all the text from "${" to the next "}": a "${"
\* inside that text belongs to the name and starts no placeholder of its
\* own.
C30_PlaceholdersLeftToRight ==
    Loaded => cfg_result = ReplacedIn(cfg_file, FALSE)

\* C30 witness: a string with a set and an unset placeholder, two levels
\* down under a key that reads like a placeholder, has been loaded with the
\* first replaced, the second and the key verbatim.
C30_Witness ==
    /\ Loaded
    /\ cfg_env = [n \in {<<"A">>} |-> <<"v">>]
    /\ cfg_file =
          List(<<Dict(<<<<"$", "{", "A", "}">>>>,
                 <<Str(<<"x", "$", "{", "A", "}", "x", "$", "{", "B", "}">>)>>)>>)
    /\ cfg_result =
          List(<<Dict(<<<<"$", "{", "A", "}">>>>,
                 <<Str(<<"x", "v", "x", "$", "{", "B", "}">>)>>)>>)

\* ------------------------------------------------------------------------
\* Credentials and the cloud: operations
\* ------------------------------------------------------------------------
\* the truth value Python gives a string or None
Truthy(v) ==
    v # None /\ v # <<>>

\* str.startswith("${")
StartsWithPlaceholder(v) ==
    Len(v) >= 2 /\ v[1] = "$" /\ v[2] = "{"

CredentialEnvOnly(env, cfg) ==
    env

\* config.py:52-53, network_utils.py:35, cloud_connector.py:26
\* os.getenv(NAME) or keys.get(name)
Credential(env, cfg) ==
    IF Truthy(env) THEN env ELSE cfg

\* config.py:62-63 bool(key and not str(key).startswith("${"))
Configured(key) ==
    Truthy(key) /\ ~StartsWithPlaceholder(key)

\* config.py:48-68 validate_env
ValidateEnvFlags(call) ==
    [sarvam_configured |->
        Configured(Credential(call.env_sarvam, call.cfg_sarvam)),
     picovoice_configured |->
        Configured(Credential(call.env_picovoice, call.cfg_picovoice)),
     mysql_configured |->
        {"MYSQL_HOST", "MYSQL_USER", "MYSQL_PASSWORD", "MYSQL_DB"}
            \subseteq call.others,
     weather_api_configured |->
        call.others \cap {"OPENWEATHER_API_KEY", "WEATHER_API_KEY"} # {}]

\* config.py:48-68 one call of validate_env
ValidateEnv ==
    \E es, cs, ep, cp \in Credentials, others \in OtherEnvs :
        LET call == [NoCall EXCEPT !.op = "validate_env",
                        !.env_sarvam = es, !.cfg_sarvam = cs,
                        !.env_picovoice = ep, !.cfg_picovoice = cp,
                        !.others = others]
        IN  /\ cl_call = NoCall
            /\ cl_call' = call
            /\ cl_requests' = 0
            /\ cl_result' = CallResult("return", None, ValidateEnvFlags(call))
            /\ UNCHANGED clFrame

ProbeAnyBody(response) ==
    response.kind = "http" /\ response.status = 200

\* network_utils.py:58-74: what the answer of the probe makes of the result
ProbeAnswer(response) ==
    /\ response.kind = "http"
    /\ response.status = 200
    /\ response.body \notin
          {"not_json", "not_mapping", "no_choices", "empty_choices"}

\* network_utils.py:33-74 is_cloud_available
IsCloudAvailable ==
    \E es, cs \in Credentials, response \in Responses :
        LET key == Credential(es, cs)
            sent == Truthy(key) /\ ~StartsWithPlaceholder(key)
            call == [NoCall EXCEPT !.op = "is_cloud_available",
                        !.env_sarvam = es, !.cfg_sarvam = cs,
                        !.response = IF sent THEN response ELSE NoResponse]
        IN  /\ cl_call = NoCall
            /\ cl_call' = call
            /\ cl_requests' = IF sent THEN 1 ELSE 0
            /\ cl_result' =
                  CallResult("return",
                             IF sent /\ ProbeAnswer(response)
                             THEN <<"True">> ELSE <<"False">>,
                             NoFlags)
            /\ UNCHANGED clFrame

StripNothing(s) ==
    s

\* str.strip
RECURSIVE Strip(_)
Strip(s) ==
    IF s = <<>> THEN s
    ELSE IF Head(s) = " " THEN Strip(Tail(s))
    ELSE IF s[Len(s)] = " " THEN Strip(SubSeq(s, 1, Len(s) - 1))
    ELSE s

\* cloud_connector.py:96-113: the error raised for the answer, None when
\* the body goes on to be read
RequestError(response) ==
    IF response.kind = "timeout"
    THEN <<"Sarvam API request timed out. Check your internet connection.">>
    ELSE IF response.kind = "connection"
    THEN <<"Cannot connect to Sarvam API. Check your internet connection.">>
    ELSE IF response.kind = "error"
    THEN <<"Sarvam API request failed">>
    ELSE IF response.status = 401
    THEN <<"Invalid Sarvam API key. Get a key at https://dashboard.sarvam.ai/">>
    ELSE IF response.status = 429
    THEN <<"Sarvam rate limit exceeded. Wait and try again.">>
    ELSE IF response.status >= 400
    THEN <<"Sarvam HTTP error">>
    ELSE IF response.body = "not_json"
    THEN <<"Sarvam API request failed">>
    ELSE None

\* cloud_connector.py:115-123: what the body of the answer gives
ReadBody(response) ==
    IF response.body \in
          {"not_mapping", "no_choices", "empty_choices", "choice_not_mapping"}
    THEN CallResult("raise", <<"Unexpected response format">>, NoFlags)
    ELSE IF response.body = "content"
    THEN CallResult("return", Strip(response.content), NoFlags)
    ELSE CallResult("return", <<>>, NoFlags)

\* cloud_connector.py:32-39 and 74-123 get_cloud_response, the credential
\* as read when the module was loaded
GetCloudResponse ==
    \E es, cs \in Credentials, response \in Responses :
        LET key == Credential(es, cs)
            sent == Truthy(key) /\ ~StartsWithPlaceholder(key)
            call == [NoCall EXCEPT !.op = "get_cloud_response",
                        !.env_sarvam = es, !.cfg_sarvam = cs,
                        !.response = IF sent THEN response ELSE NoResponse]
        IN  /\ cl_call = NoCall
            /\ cl_call' = call
            /\ cl_requests' = IF sent THEN 1 ELSE 0
            /\ cl_result' =
                  IF ~sent
                  THEN CallResult("raise", <<"Sarvam API key not configured">>,
                                  NoFlags)
                  ELSE IF RequestError(response) # None
                  THEN CallResult("raise", RequestError(response), NoFlags)
                  ELSE ReadBody(response)
            /\ UNCHANGED clFrame

\* the calls of an assistant in automatic mode, before the first subsystem
\* is set up
InitCloud ==
    /\ Init
    /\ mode = "auto"

NextCloud ==
    \/ ValidateEnv
    \/ IsCloudAvailable
    \/ GetCloudResponse

SpecCloud == InitCloud /\ [][NextCloud]_vars

\* ------------------------------------------------------------------------
\* Properties of the credentials and the cloud calls
\* ------------------------------------------------------------------------
Called(op) ==
    cl_call.op = op

\* a variable or key that holds a text
Present(v) ==
    v \notin {None, <<>>}

\* a text that begins with "${"
Unresolved(v) ==
    Len(v) >= 2 /\ SubSeq(v, 1, 2) = <<"$", "{">>

\* the credential of a provider: its environment variable, or else its
\* key of config.json
CredentialOf(env, cfg) ==
    IF Present(env) THEN env ELSE cfg

\* a credential that is absent or still begins with "${" never counts as
\* configured
PlaceholderNeverCounts ==
    /\ ~Present(CredentialOf(cl_call.env_sarvam, cl_call.cfg_sarvam))
       \/ Unresolved(CredentialOf(cl_call.env_sarvam, cl_call.cfg_sarvam))
          => ~cl_result.flags.sarvam_configured
    /\ ~Present(CredentialOf(cl_call.env_picovoice, cl_call.cfg_picovoice))
       \/ Unresolved(CredentialOf(cl_call.env_picovoice, cl_call.cfg_picovoice))
          => ~cl_result.flags.picovoice_configured

\* C31 as stated: validate_env reports the cloud provider and the wake-word
\* provider configured when the two environment variables are set to
\* values that are no placeholders, reports both flags false when neither
\* variable is set, and never counts an absent or unresolved credential.
C31_FlagsFollowEnvironment ==
    Called("validate_env") =>
        /\ cl_call.env_sarvam # None /\ ~Unresolved(cl_call.env_sarvam)
           /\ cl_call.env_picovoice # None /\ ~Unresolved(cl_call.env_picovoice)
              => /\ cl_result.flags.sarvam_configured
                 /\ cl_result.flags.picovoice_configured
        /\ cl_call.env_sarvam = None /\ cl_call.env_picovoice = None
              => /\ ~cl_result.flags.sarvam_configured
                 /\ ~cl_result.flags.picovoice_configured
        /\ PlaceholderNeverCounts

\* C31: validate_env reports a provider configured when its environment
\* variable holds a non-empty value that is no placeholder; when the
\* variable is unset or empty the flag follows the provider's key of
\* config.json, true exactly when that key is non-empty and no placeholder;
\* an absent or unresolved credential never counts.
C31_FlagsFollowEnvironmentThenConfig ==
    Called("validate_env") =>
        /\ Present(cl_call.env_sarvam) /\ ~Unresolved(cl_call.env_sarvam)
              => cl_result.flags.sarvam_configured
        /\ Present(cl_call.env_picovoice) /\ ~Unresolved(cl_call.env_picovoice)
              => cl_result.flags.picovoice_configured
        /\ ~Present(cl_call.env_sarvam)
              => (cl_result.flags.sarvam_configured
                    <=> Present(cl_call.cfg_sarvam)
                        /\ ~Unresolved(cl_call.cfg_sarvam))
        /\ ~Present(cl_call.env_picovoice)
              => (cl_result.flags.picovoice_configured
                    <=> Present(cl_call.cfg_picovoice)
                        /\ ~Unresolved(cl_call.cfg_picovoice))
        /\ PlaceholderNeverCounts

\* C31 witness: with SARVAM_API_KEY a value, PICOVOICE_ACCESS_KEY unset and
\* a placeholder key in config.json, the first flag is true and the second
\* false.
C31_Witness ==
    /\ Called("validate_env")
    /\ cl_call.env_sarvam = <<"s", "k">>
    /\ cl_call.env_picovoice = None
    /\ cl_call.cfg_picovoice = <<"$", "{", "K", "}">>
    /\ cl_result.flags.sarvam_configured
    /\ ~cl_result.flags.picovoice_configured

\* the answer is HTTP 200 with a non-empty choice list
NonEmptyChoices ==
    /\ cl_call.response.kind = "http"
    /\ cl_call.response.status = 200
    /\ cl_call.response.body \in
          {"choice_not_mapping", "no_message", "no_content",
           "content_not_str", "content"}

NoCredential ==
    LET key == CredentialOf(cl_call.env_sarvam, cl_call.cfg_sarvam)
    IN  ~Present(key) \/ Unresolved(key)

\* C32: is_cloud_available returns false without a request when the
\* credential is absent or an unresolved placeholder; otherwise it returns
\* true only for HTTP 200 with a non-empty choice list, and false, never an
\* exception, for any other status, a timeout or an error.
C32_ProbeNeverRaises ==
    Called("is_cloud_available") =>
        /\ cl_result.kind = "return"
        /\ cl_result.value \in {<<"True">>, <<"False">>}
        /\ NoCredential => cl_result.value = <<"False">> /\ cl_requests = 0
        /\ cl_result.value = <<"True">> => ~NoCredential /\ NonEmptyChoices
        /\ ~NoCredential /\ ~NonEmptyChoices => cl_result.value = <<"False">>

\* C32 witness: with a credential, the probe was sent and answered 200 with
\* an empty choice list, and the result is false.
C32_Witness ==
    /\ Called("is_cloud_available")
    /\ ~NoCredential
    /\ cl_requests = 1
    /\ cl_call.response.status = 200
    /\ cl_call.response.body = "empty_choices"
    /\ cl_result.value = <<"False">>

\* the failure cases of a request: an HTTP error status, a timeout, a
\* connection failure, another error, a body that is not JSON
RequestFailed ==
    \/ cl_call.response.kind \in {"timeout", "connection", "error"}
    \/ cl_call.response.status \in {401, 429, 500}
    \/ cl_call.response.body = "not_json"

\* the trimmed content of the first choice
TrimmedContent ==
    IF cl_call.response.content = <<" ", "H", "i", " ">>
    THEN <<"H", "i">>
    ELSE cl_call.response.content

\* get_cloud_response checks the credential first, returns the trimmed
\* content on success and fails on a failed request or a body whose kind is
\* in unusable
RepliesOrFails(unusable) ==
    Called("get_cloud_response") =>
        /\ NoCredential => cl_result.kind = "raise" /\ cl_requests = 0
        /\ ~NoCredential /\ RequestFailed => cl_result.kind = "raise"
        /\ ~NoCredential /\ ~RequestFailed
           /\ cl_call.response.body \in unusable
              => cl_result.kind = "raise"
        /\ ~NoCredential /\ ~RequestFailed /\ cl_call.response.body = "content"
              => cl_result = CallResult("return", TrimmedContent, NoFlags)

\* C33 as stated: get_cloud_response checks the credential before any
\* request, returns the trimmed content of the first choice on success and
\* fails with an error on HTTP 401, 429, any other HTTP error, a timeout, a
\* connection failure and a body without a usable choice, one whose first
\* choice carries a text.
C33_FailsWithoutUsableChoice ==
    RepliesOrFails(Bodies \ {"content"})

\* C33: as above, a body failing when it has no non-empty choice list or
\* its first choice is no mapping; a first choice without a message,
\* without a content or with one that is no string is answered with the
\* empty string.
C33_FailsWithoutChoice ==
    /\ RepliesOrFails({"not_mapping", "no_choices", "empty_choices",
                       "choice_not_mapping"})
    /\ Called("get_cloud_response") /\ ~NoCredential /\ ~RequestFailed
       /\ cl_call.response.body \in {"no_message", "no_content", "content_not_str"}
          => cl_result = CallResult("return", <<>>, NoFlags)

\* C33 witness: with the credential in config.json only, the answer 200
\* with content " Hi " was returned as "Hi".
C33_Witness ==
    /\ Called("get_cloud_response")
    /\ cl_call.env_sarvam = None
    /\ cl_call.cfg_sarvam = <<"s", "k">>
    /\ cl_requests = 1
    /\ cl_call.response.content = <<" ", "H", "i", " ">>
    /\ cl_result = CallResult("return", <<"H", "i">>, NoFlags)

\* ------------------------------------------------------------------------
\* Properties of the orchestrator: session opening
\* ------------------------------------------------------------------------
\* C34: the orchestrator goes from sleeping to an open session only when the
\* wake word was detected or the operator activated it by hand; an error
\* opening or reading the wake-word stream opens no session.
C34_SessionOnlyOnWake ==
    [][(pc = "sleeping" /\ pc' = "session")
          => /\ wake' \in {"wake_word", "manual"}
             /\ ~HasEv(events', "wake_stream", "open_raise")
             /\ ~HasEv(events', "wake_stream", "read_raise")]_vars

\* ------------------------------------------------------------------------
\* Properties of the orchestrator: speech routing
\* ------------------------------------------------------------------------
\* the replies spoken in the last step: the positions of the speak calls
\* with a non-empty text
Spoken ==
    {i \in 1..Len(events) : events[i].op = "speak" /\ events[i].res # ""}

RemotePermitted ==
    mode \in {"online", "auto"} /\ cloud_available /\ ~offline_fallback_active

\* every reply went to remote synthesis exactly when the mode is online or
\* auto, the cloud is available and the latch is clear, to the local engine
\* otherwise, and to the local engine after a remote synthesis that raised
RoutedByFlags ==
    \A i \in Spoken :
        /\ i < Len(events)
        /\ IF RemotePermitted
           THEN /\ events[i + 1].op = "synth"
                /\ events[i + 1].res = "raise"
                      => i + 2 <= Len(events) /\ events[i + 2].op = "local_tts"
           ELSE events[i + 1].op = "local_tts"

\* a remote synthesis that raises leaves the latch as it was, and the step
\* goes on as after any other speak
SynthFailureLeavesLatch ==
    [][HasEv(events', "synth", "raise")
          => /\ offline_fallback_active' = offline_fallback_active
             /\ pc' \notin {"exited", "cleanup"}]_vars

\* C35: speak routes a non-empty reply to remote synthesis exactly when the
\* mode is online or auto, the cloud-available flag is set and the latch is
\* clear, to the local engine otherwise; when remote synthesis raises the
\* reply goes to the local engine, speak does not raise and the latch is not
\* set.
C35_SpeakRouting ==
    /\ []RoutedByFlags
    /\ SynthFailureLeavesLatch

\* C35 witness: in a session a reply was sent to remote synthesis, which
\* raised, and was then handed to the local engine, the latch still clear.
C35_Witness ==
    /\ pc \in {"session", "listen", "dispatch"}
    /\ RemotePermitted
    /\ \E i \in Spoken :
          /\ i + 2 <= Len(events)
          /\ events[i + 1] = Ev("synth", "raise")
          /\ events[i + 2].op = "local_tts"

\* ------------------------------------------------------------------------
\* Properties of the realtime agent: the news cache key
\* ------------------------------------------------------------------------
\* the 'not configured' message for country c is in the cache, younger than
\* ttl
NotConfiguredCached(c) ==
    /\ cache_store[NewsKey(c)] = NewsNotConfigured
    /\ WrittenWithinTtl(cache_timestamps, NewsKey(c), rt_clock)

\* get_news without an API key, with internet and nothing cached, makes no
\* request and caches the 'not configured' message under news:<country>
NoKeyCachedByCountry ==
    [][\A c \in Countries :
        (/\ GetNews(c, None)
         /\ DetectedInternet(rt_events')
         /\ ~WrittenWithinTtl(cache_timestamps, NewsKey(c), rt_clock))
            => /\ rt_result' = NewsNotConfigured
               /\ ~Has(rt_events', "request")
               /\ NewsKey(c) = <<"news:">> \o c
               /\ cache_store'[NewsKey(c)] = NewsNotConfigured
               /\ cache_timestamps'[NewsKey(c)] = rt_clock']_vars

\* C36 as stated: the 'not configured' message of a get_news call without
\* an API key is cached under news:<country>, and every get_news call for
\* that country within the ttl window, with or without a valid API key,
\* returns the cached message without a fetch.
C36_NotConfiguredReplayedAlways ==
    /\ NoKeyCachedByCountry
    /\ [][\A c \in Countries, k \in ApiKeys :
            (GetNews(c, k) /\ NotConfiguredCached(c))
                => /\ rt_result' = NewsNotConfigured
                   /\ ~Has(rt_events', "request")]_vars

\* C36: as above, for every get_news call that detects internet; a call
\* that detects none returns the 'internet required' message.
C36_NotConfiguredReplayedOnline ==
    /\ NoKeyCachedByCountry
    /\ [][\A c \in Countries, k \in ApiKeys :
            (GetNews(c, k) /\ NotConfiguredCached(c))
                => /\ ~Has(rt_events', "request")
                   /\ rt_result' = IF DetectedInternet(rt_events')
                                   THEN NewsNotConfigured
                                   ELSE NewsNeedsInternet]_vars

\* C36 witness: with internet, a get_news call was answered from the cache
\* with the 'not configured' message while that message was younger than
\* ttl.
C36_Witness ==
    /\ AgentCalled(rt_events, "get_news")
    /\ DetectedInternet(rt_events)
    /\ rt_result = NewsNotConfigured
    /\ ~Has(rt_events, "cache_set")
    /\ \E c \in Countries : NotConfiguredCached(c)

\* ------------------------------------------------------------------------
\* Playback of remote speech: operations
\* ------------------------------------------------------------------------
\* the threads that are in their loop
Playing ==
    {t \in Playbacks : pb_thread[t] \in {"check", "write"}}

\* main.py:263-265: the event is cleared and a new _play thread started
StartPlayback(t) ==
    /\ pb_thread[t] = "none"
    /\ \A u \in Playbacks : u < t => pb_thread[u] # "none"
    /\ pb_stop' = FALSE
    /\ pb_thread' = [pb_thread EXCEPT ![t] = "check"]

\* main.py:229-266 speak, remote synthesis permitted and successful, called
\* for a reply
SpeakRemote(t) ==
    /\ pb_main = "idle"
    /\ StartPlayback(t)
    /\ UNCHANGED <<pb_main, pb_prompt>>
    /\ UNCHANGED pbFrame

\* main.py:504-513 process_command, a pause command: paused is set and the
\* stop_playback event set
PauseStop ==
    /\ pb_main = "idle"
    /\ pb_stop' = TRUE
    /\ pb_main' = "pause_prompt"
    /\ UNCHANGED <<pb_thread, pb_prompt>>
    /\ UNCHANGED pbFrame

\* main.py:514-520 and 236-266: the local engine is shut down and the pause
\* prompt spoken through remote synthesis
PausePromptRemote(t) ==
    /\ pb_main = "pause_prompt"
    /\ StartPlayback(t)
    /\ pb_prompt' = t
    /\ pb_main' = "idle"
    /\ UNCHANGED pbFrame

\* main.py:514-520 and 267-277: the pause prompt goes to the local engine,
\* remote synthesis not permitted or raising
PausePromptLocal ==
    /\ pb_main = "pause_prompt"
    /\ pb_main' = "idle"
    /\ UNCHANGED <<pb_stop, pb_thread, pb_prompt>>
    /\ UNCHANGED pbFrame

\* main.py:254: the loop test of _play
PlayCheck(t) ==
    /\ pb_thread[t] = "check"
    /\ pb_thread' = [pb_thread EXCEPT ![t] = IF pb_stop THEN "done" ELSE "write"]
    /\ UNCHANGED <<pb_stop, pb_main, pb_prompt>>
    /\ UNCHANGED pbFrame

\* main.py:255-258: frames are read and written, or there are none left
PlayWrite(t) ==
    /\ pb_thread[t] = "write"
    /\ \E more \in BOOLEAN :
          pb_thread' = [pb_thread EXCEPT ![t] = IF more THEN "check" ELSE "done"]
    /\ UNCHANGED <<pb_stop, pb_main, pb_prompt>>
    /\ UNCHANGED pbFrame

\* the playback of an assistant in automatic mode, before the first
\* subsystem is set up
InitPlayback ==
    /\ Init
    /\ mode = "auto"

NextPlayback ==
    \/ \E t \in Playbacks : SpeakRemote(t)
    \/ PauseStop
    \/ \E t \in Playbacks : PausePromptRemote(t)
    \/ PausePromptLocal
    \/ \E t \in Playbacks : PlayCheck(t)
    \/ \E t \in Playbacks : PlayWrite(t)

SpecPlayback == InitPlayback /\ [][NextPlayback]_vars

PlaybackTypeOK ==
    /\ pb_stop \in BOOLEAN
    /\ pb_thread \in [Playbacks -> {"none", "check", "write", "done"}]
    /\ pb_main \in {"idle", "pause_prompt"}
    /\ pb_prompt \in Playbacks \cup {NoPlayback}

\* ------------------------------------------------------------------------
\* Properties of the playback of remote speech
\* ------------------------------------------------------------------------
\* C37: when a pause is dispatched during remote playback, that playback has
\* stopped before the pause prompt is played, and at most one playback
\* thread writes audio at a time.
C37_OnePlayback ==
    /\ Cardinality({t \in Playbacks : pb_thread[t] = "write"}) <= 1
    /\ \A t \in Playbacks :
          (pb_prompt = t /\ pb_thread[t] = "write")
              => \A u \in Playbacks : u < t => pb_thread[u] \notin {"check", "write"}

\* ------------------------------------------------------------------------
\* Properties of the local speech engine: restart after shutdown
\* ------------------------------------------------------------------------
\* C38: every text enqueued by speak is taken and spoken by a live worker
\* under any interleaving with shutdown_tts, without a further speak call: a
\* worker that takes a sentinel and exits leaves no text in the queue.
C38_NoTextBehindSentinel ==
    [][\A w \in Workers :
        (worker_pc[w] = "get" /\ worker_pc'[w] = "dead"
         /\ tts_queue # <<>> /\ Head(tts_queue) = Sentinel)
            => {i \in 1..Len(tts_queue') : tts_queue'[i] # Sentinel} = {}]_vars

\* ------------------------------------------------------------------------
\* Properties of the wake-word listener's exception handler
\* ------------------------------------------------------------------------
\* the last step was an exception inside listen_for_wake_word
LoopRaised(es) ==
    \/ \E at \in {"create", "pyaudio", "open"} : HasEv(es, "setup", at)
    \/ HasEv(es, "read", "raise")
    \/ HasEv(es, "callback", "raise")

\* the listeners whose thread has ended
DeadListeners(wpc) ==
    {t \in Listeners : wpc[t] = "dead"}

\* C39: an exception in the listening loop (engine creation, stream open,
\* frame read, detection, callback) ends that listener and nothing else,
\* leaves the detector flagged not-running, the flag stays down until a
\* start, and a start that finds it down spawns a fresh listener.
C39_LoopFailureContained ==
    /\ [][LoopRaised(ww_events')
            => /\ ww_running' = FALSE
               /\ Cardinality(DeadListeners(ww_pc')) =
                      Cardinality(DeadListeners(ww_pc)) + 1
               /\ ww_caller' = ww_caller]_vars
    /\ [][(~ww_running /\ ww_running')
            => HasEv(ww_events', "start", "spawn")]_vars
    /\ [][(~ww_running /\ (HasEv(ww_events', "start", "running")
                            \/ HasEv(ww_events', "start", "spawn")))
            => /\ ww_pc[ww_thread'] = "unstarted"
               /\ ww_pc'[ww_thread'] = "setup"
               /\ ww_running']_vars

\* a start has spawned a listener after an earlier one died opening the
\* stream: no setup ever completed, yet the engine was created
C39_Witness ==
    /\ HasEv(ww_events, "start", "spawn")
    /\ ww_audio_stream = "none"
    /\ ww_porcupine = "live"
    /\ DeadListeners(ww_pc) # {}
    /\ ww_pc[ww_thread] = "setup"

\* ------------------------------------------------------------------------
\* The intent-to-action mapping (offline/rasa_handler.py): operations
\* ------------------------------------------------------------------------
\* rasa_handler.py:84 'triggers' in properties
HasTriggers(domain, intent) ==
    domain.intent_properties[intent] \notin {NoEntry, NoTriggers}

\* rasa_handler.py:82-86 the pass over domain.intent_properties
TriggerPass(domain) ==
    IF domain.has_properties
    THEN [n \in {m \in IntentNames : HasTriggers(domain, m)} |->
              domain.intent_properties[n]]
    ELSE EmptyMapping

\* A convention step that maps the intent whether or not it is mapped.
ConventionOverrides(mapping, intent, declared) ==
    IF ActionName(intent) \in declared
    THEN [n \in (DOMAIN mapping) \cup {intent} |->
              IF n = intent THEN ActionName(intent) ELSE mapping[n]]
    ELSE mapping

\* rasa_handler.py:91-95 one turn of the loop over domain.intents
ConventionStep(mapping, intent, declared) ==
    IF ActionName(intent) \in declared /\ intent \notin DOMAIN mapping
    THEN [n \in (DOMAIN mapping) \cup {intent} |->
              IF n = intent THEN ActionName(intent) ELSE mapping[n]]
    ELSE mapping

RECURSIVE ConventionPass(_, _, _)
\* rasa_handler.py:89-96 the pass over domain.intents
ConventionPass(mapping, intents, declared) ==
    IF intents = <<>>
    THEN mapping
    ELSE ConventionPass(ConventionStep(mapping, Head(intents), declared),
                        Tail(intents), declared)

\* rasa_handler.py:89 and 92: domain.intents is read once, and
\* domain.action_names_or_texts in every turn of the loop
ReadRaises(domain) ==
    \/ ~domain.has_intents
    \/ domain.intents # <<>> /\ ~domain.has_actions

\* rasa_handler.py:68-102 what load_intent_action_mapping returns
IntentActionMapping(domain) ==
    IF ReadRaises(domain)
    THEN EmptyMapping
    ELSE ConventionPass(TriggerPass(domain), domain.intents,
                        domain.action_names_or_texts)

\* rasa_handler.py:55 and 68-102 RasaHandler.load_intent_action_mapping
LoadIntentActionMapping(domain) ==
    /\ map_pc = "unloaded"
    /\ map_pc' = "loaded"
    /\ map_domain' = domain
    /\ map_result' = IntentActionMapping(domain)
    /\ UNCHANGED mapFrame

InitMapping ==
    /\ Init
    /\ mode = "auto"

NextMapping ==
    \E domain \in Domains : LoadIntentActionMapping(domain)

SpecMapping == InitMapping /\ [][NextMapping]_vars

\* ------------------------------------------------------------------------
\* Properties of the intent-to-action mapping
\* ------------------------------------------------------------------------
\* the intents of the loaded bundle with an explicit triggers property
Triggered ==
    IF map_domain.has_properties
    THEN {n \in IntentNames : HasTriggers(map_domain, n)}
    ELSE {}

\* the other intents the loaded bundle lists
Listed ==
    IF map_domain.has_intents
    THEN {map_domain.intents[i] : i \in 1..Len(map_domain.intents)}
            \ Triggered
    ELSE {}

\* the action names the loaded bundle declares
Declared ==
    IF map_domain.has_actions
    THEN map_domain.action_names_or_texts
    ELSE {}

\* triggers first, the naming convention for the rest, nothing else
MappingFollowsBundle ==
    /\ \A n \in Triggered :
          /\ n \in DOMAIN map_result
          /\ map_result[n] = map_domain.intent_properties[n]
    /\ \A n \in Listed :
          IF ActionName(n) \in Declared
          THEN n \in DOMAIN map_result /\ map_result[n] = ActionName(n)
          ELSE n \notin DOMAIN map_result
    /\ DOMAIN map_result \subseteq Triggered \cup Listed

\* C40: the mapping built at load time maps every intent with an explicit
\* triggers property to that trigger, every other intent X to action_X
\* exactly when action_X is declared, and holds no other intent.
C40_MappingFollowsBundle ==
    map_pc = "loaded" => MappingFollowsBundle

\* C40, amended: that holds when the bundle's intents and declared actions
\* can be read; when reading them raises, the mapping is empty, explicit
\* triggers included.
C40_MappingFollowsReadableBundle ==
    map_pc = "loaded" =>
        IF ReadRaises(map_domain)
        THEN map_result = EmptyMapping
        ELSE MappingFollowsBundle

\* a bundle was loaded in which one intent has a trigger and its action_X
\* declared as well, and another is mapped by the naming convention
C40_Witness ==
    /\ map_pc = "loaded"
    /\ ~ReadRaises(map_domain)
    /\ \E n \in Triggered, m \in Listed :
          /\ n \in {map_domain.intents[i] : i \in 1..Len(map_domain.intents)}
          /\ ActionName(n) \in Declared
          /\ map_result[n] = "action_custom"
          /\ m \in DOMAIN map_result
          /\ map_result[m] = ActionName(m)
====
